---- MODULE Spec2Model ----
(***************************************************************************)
(* A model of the CottonOnly scraper.                                      *)
(*                                                                         *)
(*  Spec         the web orchestrator of src/app.py: the start and stop    *)
(*               request handlers, the shared scraping_status dictionary   *)
(*               and the background threads running scrape_async, each     *)
(*               driving BaseScraper.scrape_all over the job's genders.    *)
(*  AdapterSpec  one scrape_category call of an adapter (generic, H&M,     *)
(*               ASOS): safe_goto with its retries, the links of the       *)
(*               listing page and the verification of each product page.   *)
(*                                                                         *)
(* Texts are sequences of one-character strings, so that lower-casing,     *)
(* whitespace normalisation, the price parser and the cotton patterns are  *)
(* computed the way the code computes them.                                *)
(***************************************************************************)
EXTENDS Integers, Sequences, FiniteSets, TLC

VARIABLES
    scraping_status,   \* src/app.py:24  the global job status dictionary
    thread,            \* the threads start_scrape has launched, by number
    starts,            \* start requests handled so far
    stops,             \* stop requests handled so far
    resp,              \* the response of the last start request
    ad,                \* the adapter of AdapterSpec (one scrape_category call)
    call,              \* the helper call of HelperSpec: function, arguments, result
    cli                \* src/main.py: one scrape_region call and its coroutines

vars == <<scraping_status, thread, starts, stops, resp, ad, call, cli>>

\* ------------------------------------------------------------------ bounds

\* Start requests, accepted or refused, in one behaviour.
MaxStarts == 2
\* Stop requests in one behaviour.
MaxStops == 1
\* Products one scrape_category call of the orchestrator model returns.
MaxFound == 1
\* Catalogue positions at which the listing of a gender may start.
MaxUrls == 2
\* Product links a listing page of the adapter model holds.
MaxLinks == 2
\* Retailers of one scrape_region call.
MaxTasks == 6

NONE == "None"

\* ------------------------------------------------------- configuration

\* The retailer keys of RETAILERS the model uses (a subset of the table).
RETAILERS == {"hm", "asos", "uniqlo"}

\* The retailers lists a start request carries. "nosuch" is a key that is
\* not in RETAILERS: GenericRetailerScraper.__init__ raises for it.
RetailerInputs == {<<"hm">>, <<"nosuch", "asos">>, <<"uniqlo", "hm">>}

\* The genders lists a start request carries: the request body is not
\* validated, so a list may hold any string.
GenderInputs == {<<"men">>, <<"women", "kids">>, <<"unisex">>}

\* H&M builds its listing URL from a table of the three genders.
HM_gender_paths == {"men", "women", "kids"}

\* ------------------------------------------------------------- helpers

Threads == 1 .. MaxStarts

Last(s) == s[Len(s)]

\* log_message: one entry appended to the status log.
log_message(st, m) == [st EXCEPT !.log = Append(@, m)]

\* create_scraper: the adapter class of a retailer key, or a raise.
create_scraper(retailer) ==
    IF retailer = "hm" THEN "hm"
    ELSE IF retailer = "asos" THEN "asos"
    ELSE IF retailer \in RETAILERS THEN "generic"
    ELSE "raise"

\* src/utils/helpers.py generate_product_id: the first 12 hex digits of the
\* MD5 of "source:url", here the pair itself (equal for equal arguments,
\* and taken to differ for different ones).
generate_product_id(source, product_url) == <<source, product_url>>

\* create_product_entry, as far as the orchestrator model needs a record:
\* the retailer it comes from, the gender it was scraped under, its url
\* (the number of the product in the retailer's catalogue) and its id.
create_product_entry_job(retailer, gender, url) ==
    [id |-> generate_product_id(retailer, url), source |-> retailer,
     gender |-> gender, url |-> url]

\* int((idx / total_retailers) * 100), idx counted from 0.
progress_of(idx0, total) == (idx0 * 100) \div total

NoThread ==
    [pc |-> "none", retailers |-> <<>>, genders |-> <<>>, idx |-> 1, g |-> 1,
     all_products |-> <<>>, sc_products |-> <<>>, sc_errors |-> <<>>,
     h_stop |-> FALSE, h_began_after_stop |-> FALSE, h_broke |-> FALSE,
     h_raised |-> {}, h_returned |-> <<>>, h_adapter_errs |-> {}]

InitStatus ==
    [is_scraping |-> FALSE, current_retailer |-> NONE, progress |-> 0,
     total_products |-> 0, errors |-> <<>>, log |-> <<>>]

\* A thread between the first and the last step of scrape_async.
Running(t) == thread[t].pc \notin {"none", "done", "crashed"}

\* ------------------------------------------------------------------ texts

\* A text is a sequence of characters, each a string. "nbsp" stands for the
\* no-break space U+00A0, "pound" and "euro" for the currency signs.
Whitespace == {" ", "\t", "\n", "nbsp"}

Digit == {"0", "1", "2", "3", "4", "5", "6", "7", "8", "9"}

UpperCase == <<"A", "B", "C", "D", "E", "F", "G", "H", "I", "J", "K", "L", "M",
               "N", "O", "P", "Q", "R", "S", "T", "U", "V", "W", "X", "Y", "Z">>

LowerCase == <<"a", "b", "c", "d", "e", "f", "g", "h", "i", "j", "k", "l", "m",
               "n", "o", "p", "q", "r", "s", "t", "u", "v", "w", "x", "y", "z">>

\* str.lower(), one character.
LowerChar(c) ==
    IF \E i \in 1 .. 26 : UpperCase[i] = c
    THEN LowerCase[CHOOSE i \in 1 .. 26 : UpperCase[i] = c]
    ELSE c

\* str.lower()
lower(s) == [i \in 1 .. Len(s) |-> LowerChar(s[i])]

RECURSIVE lstrip(_)
lstrip(s) == IF s # <<>> /\ Head(s) \in Whitespace THEN lstrip(Tail(s)) ELSE s

RECURSIVE rstrip(_)
rstrip(s) ==
    IF s # <<>> /\ s[Len(s)] \in Whitespace
    THEN rstrip(SubSeq(s, 1, Len(s) - 1))
    ELSE s

\* str.strip()
strip(s) == rstrip(lstrip(s))

\* The first word of a text that starts with no whitespace.
RECURSIVE FirstWord(_)
FirstWord(s) ==
    IF s = <<>> \/ Head(s) \in Whitespace THEN <<>>
    ELSE <<Head(s)>> \o FirstWord(Tail(s))

\* str.split(): the maximal runs of characters that are not whitespace.
RECURSIVE split(_)
split(s) ==
    LET t == lstrip(s)
        w == FirstWord(t)
    IN  IF t = <<>> THEN <<>>
        ELSE <<w>> \o split(SubSeq(t, Len(w) + 1, Len(t)))

\* ' '.join(words)
RECURSIVE join(_)
join(words) ==
    IF words = <<>> THEN <<>>
    ELSE IF Len(words) = 1 THEN words[1]
    ELSE words[1] \o <<" ">> \o join(Tail(words))

\* src/utils/helpers.py clean_text
clean_text(text) ==
    IF text = <<>> THEN <<>> ELSE strip(join(split(text)))

\* A regular expression of the code, as far as its patterns go: a sequence
\* of atoms, each a literal text or \s* (WS).
Lit(x) == [t |-> "lit", s |-> x]
WS == [t |-> "ws", s |-> <<>>]

HasAt(s, i, x) ==
    /\ i + Len(x) - 1 <= Len(s)
    /\ \A j \in 1 .. Len(x) : s[i + j - 1] = x[j]

\* Whether pat[k..] matches a prefix of s[i..].
RECURSIVE MatchAt(_, _, _, _)
MatchAt(pat, k, s, i) ==
    IF k > Len(pat) THEN TRUE
    ELSE IF pat[k].t = "lit"
    THEN HasAt(s, i, pat[k].s) /\ MatchAt(pat, k + 1, s, i + Len(pat[k].s))
    ELSE \/ MatchAt(pat, k + 1, s, i)
         \/ i <= Len(s) /\ s[i] \in Whitespace /\ MatchAt(pat, k, s, i + 1)

\* re.search(pattern, s) is not None
re_search(pat, s) == \E i \in 1 .. Len(s) + 1 : MatchAt(pat, 1, s, i)

w_100 == <<"1", "0", "0">>
w_pct == <<"%">>
w_100pct == <<"1", "0", "0", "%">>
w_cotton == <<"c", "o", "t", "t", "o", "n">>
w_pure == <<"p", "u", "r", "e">>
w_all == <<"a", "l", "l">>
w_organic == <<"o", "r", "g", "a", "n", "i", "c">>
w_bci == <<"b", "c", "i">>

\* src/config.py COTTON_PATTERNS
COTTON_PATTERNS ==
    << <<Lit(w_100pct), WS, Lit(w_cotton)>>,
       <<Lit(w_100), WS, Lit(w_pct), WS, Lit(w_cotton)>>,
       <<Lit(w_cotton), WS, Lit(w_100pct)>>,
       <<Lit(w_pure), WS, Lit(w_cotton)>>,
       <<Lit(w_all), WS, Lit(w_cotton)>>,
       <<Lit(w_100pct), WS, Lit(w_organic), WS, Lit(w_cotton)>>,
       <<Lit(w_100pct), WS, Lit(w_bci), WS, Lit(w_cotton)>> >>

\* A classifier that compares letters exactly as they are written.
is_100_percent_cotton_cased(material_text) ==
    IF material_text = <<>> THEN FALSE
    ELSE LET material == strip(material_text)
         IN  \E k \in 1 .. Len(COTTON_PATTERNS) :
                re_search(COTTON_PATTERNS[k], material)

\* src/utils/helpers.py is_100_percent_cotton
is_100_percent_cotton(material_text) ==
    IF material_text = <<>> THEN FALSE
    ELSE LET material_lower == strip(lower(material_text))
         IN  \E k \in 1 .. Len(COTTON_PATTERNS) :
                re_search(COTTON_PATTERNS[k], material_lower)

\* ----------------------------------------------------------- prices

RECURSIVE Remove(_, _)
Remove(s, chars) ==
    IF s = <<>> THEN <<>>
    ELSE IF Head(s) \in chars THEN Remove(Tail(s), chars)
    ELSE <<Head(s)>> \o Remove(Tail(s), chars)

\* The longest run of digits at the start of a text.
RECURSIVE DigitRun(_)
DigitRun(s) ==
    IF s = <<>> \/ Head(s) \notin Digit THEN <<>>
    ELSE <<Head(s)>> \o DigitRun(Tail(s))

DigitValue(c) == CHOOSE d \in 0 .. 9 : <<"0", "1", "2", "3", "4", "5", "6", "7", "8", "9">>[d + 1] = c

RECURSIVE IntOf(_)
IntOf(ds) ==
    IF ds = <<>> THEN 0
    ELSE IntOf(SubSeq(ds, 1, Len(ds) - 1)) * 10 + DigitValue(ds[Len(ds)])

RECURSIVE StripZeros(_)
StripZeros(ds) ==
    IF ds # <<>> /\ ds[Len(ds)] = "0"
    THEN StripZeros(SubSeq(ds, 1, Len(ds) - 1))
    ELSE ds

\* Python's None where a float is expected.
NoneFloat == [none |-> TRUE, num |-> 0, scale |-> 0]

\* float("<ip>.<fp>"): the number IntOf(ip fp) / 10^scale, with the zeros
\* that end the fraction dropped, so that equal numbers are equal records.
Float(ip, fp) ==
    LET f == StripZeros(fp)
    IN  [none |-> FALSE, num |-> IntOf(ip \o f), scale |-> Len(f)]

\* A price parser that drops every comma, whatever ends the text.
clean_price_commas_dropped(price_text) ==
    IF price_text = <<>> THEN NoneFloat
    ELSE
    LET cleaned == Remove(price_text, {"pound", "$", "euro", ","} \cup Whitespace)
        n == Len(cleaned)
    IN  IF \A i \in 1 .. n : cleaned[i] \notin Digit THEN NoneFloat
        ELSE
        LET i0   == CHOOSE i \in 1 .. n :
                        /\ cleaned[i] \in Digit
                        /\ \A j \in 1 .. i - 1 : cleaned[j] \notin Digit
            ip   == DigitRun(SubSeq(cleaned, i0, n))
            rest == SubSeq(cleaned, i0 + Len(ip), n)
            fp   == IF rest # <<>> /\ Head(rest) = "."
                    THEN DigitRun(Tail(rest)) ELSE <<>>
        IN  Float(ip, fp)

\* src/utils/helpers.py clean_price: None, or the number of the first
\* match of \d+\.?\d* after the currency signs, the whitespace and the
\* commas are dealt with.
clean_price(price_text) ==
    IF price_text = <<>> THEN NoneFloat
    ELSE
    LET c0 == Remove(price_text, {"pound", "$", "euro"} \cup Whitespace)
        n0 == Len(c0)
        european ==
            /\ n0 >= 3
            /\ c0[n0 - 2] = ","
            /\ c0[n0 - 1] \in Digit
            /\ c0[n0] \in Digit
        cleaned ==
            IF european
            THEN [i \in 1 .. n0 |-> IF c0[i] = "," THEN "." ELSE c0[i]]
            ELSE Remove(c0, {","})
        n == Len(cleaned)
    IN  IF \A i \in 1 .. n : cleaned[i] \notin Digit THEN NoneFloat
        ELSE
        LET i0   == CHOOSE i \in 1 .. n :
                        /\ cleaned[i] \in Digit
                        /\ \A j \in 1 .. i - 1 : cleaned[j] \notin Digit
            ip   == DigitRun(SubSeq(cleaned, i0, n))
            rest == SubSeq(cleaned, i0 + Len(ip), n)
            fp   == IF rest # <<>> /\ Head(rest) = "."
                    THEN DigitRun(Tail(rest)) ELSE <<>>
        IN  Float(ip, fp)

\* Python's truth value of a price: None and 0.0 are false.
PriceTruthy(price) == ~price.none /\ price.num # 0

\* ------------------------------------------------------------ pages

\* What query_selector finds: an element with its inner text, or nothing.
Elem(text) == [present |-> TRUE, text |-> text]
NoElem == [present |-> FALSE, text |-> <<>>]

\* `await elem.inner_text() if elem else ""`
inner_text_or_empty(e) == IF e.present THEN e.text ELSE <<>>

t_Tee == <<" ", "T", "e", "e", " ", " ", "X">>
t_From == <<"F", "r", "o", "m">>
t_29_99 == <<"pound", "2", "9", ".", "9", "9">>
t_19_99 == <<"euro", " ", "1", "9", ",", "9", "9">>
t_0_00 == <<"pound", "0", ".", "0", "0">>
t_100_Cotton == <<"1", "0", "0", "%", " ", "C", "o", "t", "t", "o", "n">>
t_Pure_Cotton == <<"P", "u", "r", "e", " ", "C", "o", "t", "t", "o", "n">>
t_Blend == <<"8", "0", "%", " ", "C", "o", "t", "t", "o", "n", " ",
             "2", "0", "%", " ", "E", "l", "a", "s", "t", "a", "n", "e">>

\* The texts the pages of the model show: names (empty, a lone no-break
\* space, a name with stray whitespace), prices (no digit, zero, a decimal
\* point, a decimal comma) and compositions (none, two that qualify and a
\* blend).
NameTexts == {<<>>, <<"nbsp">>, t_Tee}
PriceTexts == {t_From, t_0_00, t_29_99, t_19_99}
MaterialTexts == {<<>>, t_100_Cotton, t_Blend, t_Pure_Cotton}

\* A product page, as the adapters read it: h1 and price are the elements
\* their selectors find, material is the text Material Extraction returns
\* for the page ("" when it finds none), details whether the page has the
\* product-details block ASOS waits for.
ProductPages ==
    [h1 : {NoElem} \cup {Elem(x) : x \in NameTexts},
     price : {NoElem} \cup {Elem(x) : x \in PriceTexts},
     material : MaterialTexts,
     details : BOOLEAN]

\* The pages that differ for an adapter: only ASOS waits for the details
\* block, and reads nothing else of a page that lacks it.
PagesFor(kind) ==
    {pg \in ProductPages : pg.details}
    \cup (IF kind = "asos"
          THEN {[h1 |-> Elem(t_Tee), price |-> Elem(t_29_99),
                 material |-> t_100_Cotton, details |-> FALSE]}
          ELSE {})

\* What ASOS takes from the listing page for one product
\* (extract_products_from_page): a name, whether the url is non-empty, and
\* a price already parsed by clean_price.
ListingData ==
    [name : {<<>>, t_Tee}, has_url : {TRUE},
     price : {NoneFloat, clean_price(t_29_99)}]
    \cup {[name |-> t_Tee, has_url |-> FALSE, price |-> clean_price(t_29_99)]}

\* The other adapters take only the link from the listing page.
NoData == [name |-> <<>>, has_url |-> TRUE, price |-> NoneFloat]

DataFor(kind) == IF kind = "asos" THEN ListingData ELSE {NoData}

retailer_id(kind) == IF kind = "generic" THEN "uniqlo" ELSE kind

\* src/scrapers/base_scraper.py create_product_entry, the fields the
\* claims read.
create_product_entry(kind, name, price, url, gender, material) ==
    [name |-> clean_text(name), price |-> price, url |-> url,
     gender |-> gender, material |-> material, source |-> retailer_id(kind)]

\* What a verification gives back: at most one record, and the entries it
\* appends to the adapter's error list.
Verified(recs, errs) == [products |-> recs, errors |-> errs]

\* GenericRetailerScraper.extract_text: the cleaned text of the first
\* element with a non-empty inner text, or "".
extract_text(e) == IF e.present /\ e.text # <<>> THEN clean_text(e.text) ELSE <<>>

\* GenericRetailerScraper.get_product_details after safe_goto succeeded.
generic_get_product_details(pg, url, gender) ==
    LET name  == extract_text(pg.h1)
        price == clean_price(extract_text(pg.price))
    IN  IF pg.material = <<>> \/ ~is_100_percent_cotton(pg.material)
        THEN Verified(<<>>, <<>>)
        ELSE IF name # <<>> /\ PriceTruthy(price)
        THEN Verified(<<create_product_entry("generic", name, price, url, gender,
                                             pg.material)>>, <<>>)
        ELSE Verified(<<>>, <<>>)

\* HMScraper.get_product_details after safe_goto succeeded: waiting for the
\* h1 raises when there is none, which the except clause records.
hm_get_product_details(pg, url, gender) ==
    IF ~pg.h1.present THEN Verified(<<>>, <<<<"Error getting details", url>>>>)
    ELSE
    LET name  == pg.h1.text
        price == clean_price(inner_text_or_empty(pg.price))
    IN  IF pg.material = <<>> \/ ~is_100_percent_cotton(pg.material)
        THEN Verified(<<>>, <<>>)
        ELSE IF name # <<>> /\ PriceTruthy(price)
        THEN Verified(<<create_product_entry("hm", name, price, url, gender,
                                             pg.material)>>, <<>>)
        ELSE Verified(<<>>, <<>>)

\* ASOSScraper.verify_product_material after safe_goto succeeded: name and
\* price come from the listing page, and from the product page when the
\* listing gave none.
asos_verify_product_material(data, pg, url, gender) ==
    IF ~pg.details THEN Verified(<<>>, <<<<"Error verifying", url>>>>)
    ELSE IF pg.material = <<>> \/ ~is_100_percent_cotton(pg.material)
    THEN Verified(<<>>, <<>>)
    ELSE
    LET name  == IF data.name # <<>> THEN data.name
                 ELSE inner_text_or_empty(pg.h1)
        price == IF PriceTruthy(data.price) THEN data.price
                 ELSE clean_price(inner_text_or_empty(pg.price))
    IN  IF name # <<>> /\ PriceTruthy(price)
        THEN Verified(<<create_product_entry("asos", name, price, url, gender,
                                             pg.material)>>, <<>>)
        ELSE Verified(<<>>, <<>>)

\* The verification of the adapter kind.
get_product_details(kind, data, pg, url, gender) ==
    IF kind = "generic" THEN generic_get_product_details(pg, url, gender)
    ELSE IF kind = "hm" THEN hm_get_product_details(pg, url, gender)
    ELSE asos_verify_product_material(data, pg, url, gender)

\* ---------------------------------------- src/utils/helpers.py: calls

\* No helper call.
NoCall == [fn |-> "none", done |-> FALSE]

\* str.upper(), one character.
UpperChar(c) ==
    IF \E i \in 1 .. 26 : LowerCase[i] = c
    THEN UpperCase[CHOOSE i \in 1 .. 26 : LowerCase[i] = c]
    ELSE c

upper(s) == [i \in 1 .. Len(s) |-> UpperChar(s[i])]

\* A text with every other letter in upper case.
Alternating(s) ==
    [i \in 1 .. Len(s) |-> IF i % 2 = 1 THEN UpperChar(s[i]) ELSE LowerChar(s[i])]

LetterCases == {"lower", "upper", "alternating"}

InCase(s, c) ==
    IF c = "lower" THEN lower(s)
    ELSE IF c = "upper" THEN upper(s)
    ELSE Alternating(s)

\* The words of a phrase, with gaps[k] between word k and word k + 1.
RECURSIVE Phrase(_, _)
Phrase(words, gaps) ==
    IF Len(words) = 1 THEN words[1]
    ELSE words[1] \o gaps[1] \o Phrase(Tail(words), Tail(gaps))

\* The phrases that qualify a composition as cotton.
CottonPhrases ==
    {<<w_100pct, w_cotton>>, <<w_pure, w_cotton>>, <<w_all, w_cotton>>,
     <<w_100pct, w_organic, w_cotton>>, <<w_100pct, w_bci, w_cotton>>}

\* Whitespace between two words of a phrase.
Gaps == {<<" ">>, <<" ", " ">>, <<"\t">>, <<"nbsp">>, <<"\n", " ">>}

t_Shell == <<"S", "h", "e", "l", "l", ":", " ">>
t_MachineWash == <<".", " ", "M", "a", "c", "h", "i", "n", "e", " ", "w",
                   "a", "s", "h">>

\* What surrounds a phrase in a composition text.
Before == {<<>>, <<" ", "\n">>, t_Shell}
After == {<<>>, <<" ", " ">>, t_MachineWash}

\* The composition texts that contain a qualifying phrase.
PhraseTexts ==
    {before \o InCase(Phrase(words, gaps), c) \o after :
        words \in CottonPhrases, gaps \in [1 .. 2 -> Gaps],
        c \in LetterCases, before \in Before, after \in After}

t_50_Cotton == <<"5", "0", "%", " ", "C", "o", "t", "t", "o", "n">>
t_50_Polyester == <<"5", "0", "%", " ", "P", "o", "l", "y", "e", "s", "t",
                    "e", "r">>
t_80_Cotton == <<"8", "0", "%", " ", "C", "o", "t", "t", "o", "n">>
t_20_Elastane == <<"2", "0", "%", " ", "E", "l", "a", "s", "t", "a", "n",
                   "e">>
t_40_Polyester == <<"4", "0", "%", " ", "P", "o", "l", "y", "e", "s", "t",
                    "e", "r">>
t_60_Cotton == <<"6", "0", "%", " ", "C", "o", "t", "t", "o", "n">>
t_5_Elastane == <<"5", "%", " ", "E", "l", "a", "s", "t", "a", "n", "e">>
t_95_Cotton == <<"9", "5", "%", " ", "C", "o", "t", "t", "o", "n">>
t_100_Polyester == <<"1", "0", "0", "%", " ", "P", "o", "l", "y", "e", "s",
                     "t", "e", "r">>
t_Lining == <<";", " ", "L", "i", "n", "i", "n", "g", ":", " ">>

\* Blended compositions: a part of two fibres, cotton below 100%, the
\* fibres separated by a comma or a space, and possibly a second part (a
\* lining) on a line of its own or after a label.
BlendParts ==
    {<<t_50_Cotton, t_50_Polyester>>, <<t_80_Cotton, t_20_Elastane>>,
     <<t_40_Polyester, t_60_Cotton>>, <<t_5_Elastane, t_95_Cotton>>}

BlendTexts ==
    {part[1] \o sep \o part[2] \o lining :
        part \in BlendParts, sep \in {<<",", " ">>, <<" ">>},
        lining \in {<<>>, <<"\n">> \o t_100_Polyester,
                    t_Lining \o t_100_Polyester}}

\* A call of is_100_percent_cotton that has not run yet; h_kind is what
\* the text was built as.
CottonCall(text, kind) ==
    [fn |-> "is_100_percent_cotton", done |-> FALSE, arg |-> text,
     result |-> FALSE, h_kind |-> kind]

CottonCalls ==
    {CottonCall(text, "phrase") : text \in PhraseTexts}
    \cup {CottonCall(text, "blend") : text \in BlendTexts}
    \cup {CottonCall(<<>>, "empty")}

\* is_100_percent_cotton(material_text) runs.
H_is_100_percent_cotton ==
    /\ call.fn = "is_100_percent_cotton"
    /\ ~call.done
    /\ call' = [call EXCEPT !.done = TRUE,
                            !.result = is_100_percent_cotton(call.arg)]
    /\ UNCHANGED <<scraping_status, thread, starts, stops, resp, ad, cli>>

\* x occurs in s (x in s, for a non-empty x).
Contains(s, x) == \E i \in 1 .. Len(s) : HasAt(s, i, x)

\* src/config.py GENDER_CATEGORIES, in the order of the dictionary.
GENDER_CATEGORIES ==
    <<[gender |-> "men",
      variants |->
        <<<<"m", "e", "n">>,
          <<"m", "a", "l", "e">>,
          <<"m", "e", "n", "s">>,
          <<"h", "i", "m">>>>],
     [gender |-> "women",
      variants |->
        <<<<"w", "o", "m", "e", "n">>,
          <<"f", "e", "m", "a", "l", "e">>,
          <<"w", "o", "m", "e", "n", "s">>,
          <<"l", "a", "d", "i", "e", "s">>,
          <<"h", "e", "r">>>>],
     [gender |-> "kids",
      variants |->
        <<<<"k", "i", "d", "s">>,
          <<"c", "h", "i", "l", "d", "r", "e", "n">>,
          <<"b", "o", "y", "s">>,
          <<"g", "i", "r", "l", "s">>,
          <<"b", "a", "b", "y">>,
          <<"t", "o", "d", "d", "l", "e", "r">>,
          <<"i", "n", "f", "a", "n", "t">>>>]>>

\* src/utils/helpers.py normalize_gender: the first standard gender one of
\* whose variants occurs in the lower-cased, trimmed text, or None.
normalize_gender(gender_text) ==
    IF gender_text = <<>> THEN NONE
    ELSE LET gender_lower == strip(lower(gender_text))
             hits == {k \in 1 .. Len(GENDER_CATEGORIES) :
                         \E v \in 1 .. Len(GENDER_CATEGORIES[k].variants) :
                            Contains(gender_lower, GENDER_CATEGORIES[k].variants[v])}
         IN  IF hits = {} THEN NONE
             ELSE GENDER_CATEGORIES[CHOOSE k \in hits : \A j \in hits : k <= j].gender

t_unknown_label == <<"u", "n", "k", "n", "o", "w", "n", "-", "l", "a",
                      "b", "e", "l">>
t_unisex == <<"u", "n", "i", "s", "e", "x">>

\* A call of normalize_gender that has not run yet; h_listed is the gender
\* whose list the label comes from, or None for a label of no list.
GenderCall(text, listed) ==
    [fn |-> "normalize_gender", done |-> FALSE, arg |-> text,
     result |-> NONE, h_listed |-> listed]

GenderCalls ==
    UNION {{GenderCall(InCase(GENDER_CATEGORIES[k].variants[v], c),
                       GENDER_CATEGORIES[k].gender) :
               v \in 1 .. Len(GENDER_CATEGORIES[k].variants), c \in LetterCases} :
           k \in 1 .. Len(GENDER_CATEGORIES)}
    \cup {GenderCall(text, NONE) : text \in {<<>>, t_unknown_label, t_unisex}}

\* normalize_gender(gender_text) runs.
H_normalize_gender ==
    /\ call.fn = "normalize_gender"
    /\ ~call.done
    /\ call' = [call EXCEPT !.done = TRUE,
                            !.result = normalize_gender(call.arg)]
    /\ UNCHANGED <<scraping_status, thread, starts, stops, resp, ad, cli>>

\* src/utils/helpers.py categorize_product: category_keywords, in the
\* order of the dictionary.
category_keywords ==
    <<[category |-> "t-shirts",
      keywords |->
        <<<<"t", "-", "s", "h", "i", "r", "t">>,
          <<"t", "e", "e">>,
          <<"t", "s", "h", "i", "r", "t">>>>],
     [category |-> "shirts",
      keywords |->
        <<<<"s", "h", "i", "r", "t">>,
          <<"b", "l", "o", "u", "s", "e">>,
          <<"b", "u", "t", "t", "o", "n", "-", "u", "p">>>>],
     [category |-> "jeans",
      keywords |->
        <<<<"j", "e", "a", "n", "s">>,
          <<"d", "e", "n", "i", "m">>>>],
     [category |-> "trousers",
      keywords |->
        <<<<"t", "r", "o", "u", "s", "e", "r", "s">>,
          <<"p", "a", "n", "t", "s">>,
          <<"c", "h", "i", "n", "o", "s">>,
          <<"s", "l", "a", "c", "k", "s">>>>],
     [category |-> "dresses",
      keywords |->
        <<<<"d", "r", "e", "s", "s">>>>],
     [category |-> "skirts",
      keywords |->
        <<<<"s", "k", "i", "r", "t">>>>],
     [category |-> "shorts",
      keywords |->
        <<<<"s", "h", "o", "r", "t", "s">>>>],
     [category |-> "sweaters",
      keywords |->
        <<<<"s", "w", "e", "a", "t", "e", "r">>,
          <<"j", "u", "m", "p", "e", "r">>,
          <<"p", "u", "l", "l", "o", "v", "e", "r">>,
          <<"k", "n", "i", "t">>>>],
     [category |-> "hoodies",
      keywords |->
        <<<<"h", "o", "o", "d", "i", "e">>,
          <<"s", "w", "e", "a", "t", "s", "h", "i", "r", "t">>>>],
     [category |-> "jackets",
      keywords |->
        <<<<"j", "a", "c", "k", "e", "t">>,
          <<"c", "o", "a", "t">>,
          <<"b", "l", "a", "z", "e", "r">>>>],
     [category |-> "underwear",
      keywords |->
        <<<<"u", "n", "d", "e", "r", "w", "e", "a", "r">>,
          <<"b", "r", "i", "e", "f", "s">>,
          <<"b", "o", "x", "e", "r", "s">>,
          <<"p", "a", "n", "t", "i", "e", "s">>,
          <<"b", "r", "a">>>>],
     [category |-> "socks",
      keywords |->
        <<<<"s", "o", "c", "k", "s">>,
          <<"s", "o", "c", "k">>>>],
     [category |-> "activewear",
      keywords |->
        <<<<"j", "o", "g", "g", "e", "r", "s">>,
          <<"l", "e", "g", "g", "i", "n", "g", "s">>,
          <<"s", "p", "o", "r", "t", "s">>,
          <<"g", "y", "m">>,
          <<"a", "t", "h", "l", "e", "t", "i", "c">>>>]>>

\* The categories one of whose keywords occurs in the text.
CategoryHits(text) ==
    {k \in 1 .. Len(category_keywords) :
        \E w \in 1 .. Len(category_keywords[k].keywords) :
           Contains(text, category_keywords[k].keywords[w])}

\* A categoriser in which the last category with a hit wins.
categorize_product_last(product_name, product_url) ==
    LET text == lower(product_name \o <<" ">> \o product_url)
        hits == CategoryHits(text)
    IN  IF hits = {} THEN "other"
        ELSE category_keywords[CHOOSE k \in hits : \A j \in hits : k >= j].category

\* src/utils/helpers.py categorize_product
categorize_product(product_name, product_url) ==
    LET text == lower(product_name \o <<" ">> \o product_url)
        hits == CategoryHits(text)
    IN  IF hits = {} THEN "other"
        ELSE category_keywords[CHOOSE k \in hits : \A j \in hits : k <= j].category

t_Mens_Cotton_TShirt == <<"M", "e", "n", "'", "s", " ", "C", "o", "t", "t",
                          "o", "n", " ", "T", "-", "S", "h", "i", "r", "t">>
t_Slim_Fit_Jeans == <<"S", "l", "i", "m", " ", "F", "i", "t", " ", "J",
                      "e", "a", "n", "s">>
t_Cotton_Hoodie == <<"C", "o", "t", "t", "o", "n", " ", "H", "o", "o", "d",
                     "i", "e">>
t_Widget_XYZ == <<"W", "i", "d", "g", "e", "t", " ", "X", "Y", "Z">>
t_Denim_Shirt == <<"D", "e", "n", "i", "m", " ", "S", "h", "i", "r", "t">>
t_Sweatshirt == <<"S", "w", "e", "a", "t", "s", "h", "i", "r", "t">>
t_Knit_Dress == <<"K", "n", "i", "t", " ", "D", "r", "e", "s", "s">>
t_url_skirt == <<"/", "p", "/", "s", "k", "i", "r", "t", "-", "1">>
t_url_9 == <<"/", "p", "/", "9">>

ProductNames ==
    {<<>>, t_Mens_Cotton_TShirt, t_Slim_Fit_Jeans, t_Cotton_Hoodie,
     t_Widget_XYZ, t_Denim_Shirt, t_Sweatshirt, t_Knit_Dress}

ProductUrls == {<<>>, t_url_skirt, t_url_9}

CategoryCalls ==
    {[fn |-> "categorize_product", done |-> FALSE, name |-> n, url |-> u,
      result |-> NONE] : n \in ProductNames, u \in ProductUrls}

\* categorize_product(product_name, product_url) runs.
H_categorize_product ==
    /\ call.fn = "categorize_product"
    /\ ~call.done
    /\ call' = [call EXCEPT !.done = TRUE,
                            !.result = categorize_product(call.name, call.url)]
    /\ UNCHANGED <<scraping_status, thread, starts, stops, resp, ad, cli>>

\* src/config.py RETAILERS[...]["base_urls"], for five retailers of the
\* table, each in the order of its dictionary.
base_urls ==
    [hm |-> <<[region |-> "UK", url |-> "https://www2.hm.com/en_gb"],
              [region |-> "USA", url |-> "https://www2.hm.com/en_us"]>>,
     asos |-> <<[region |-> "UK", url |-> "https://www.asos.com"],
                [region |-> "USA", url |-> "https://www.asos.com/us"]>>,
     uniqlo |-> <<[region |-> "UK", url |-> "https://www.uniqlo.com/uk/en"],
                  [region |-> "USA", url |-> "https://www.uniqlo.com/us/en"]>>,
     gap |-> <<[region |-> "USA", url |-> "https://www.gap.com"]>>,
     next |-> <<[region |-> "UK", url |-> "https://www.next.co.uk"]>>]

\* The regions a start request may name: the two of REGIONS and one that
\* is in no table (the request's region is not validated).
RegionInputs == {"UK", "USA", "DE"}

\* Whether the retailer has a base URL for the region.
HasBaseUrl(retailer, region) ==
    \E k \in 1 .. Len(base_urls[retailer]) : base_urls[retailer][k].region = region

\* urls.get(region, default)
UrlsGet(urls, region, default) ==
    IF \E k \in 1 .. Len(urls) : urls[k].region = region
    THEN urls[CHOOSE k \in 1 .. Len(urls) : urls[k].region = region].url
    ELSE default

\* get_base_url of the adapter create_scraper builds for the retailer:
\* HMScraper and ASOSScraper fall back on their UK URL, the generic adapter
\* on the first URL of the retailer, or "" when it has none.
get_base_url(retailer, region) ==
    LET urls == base_urls[retailer]
    IN  IF retailer \in {"hm", "asos"}
        THEN UrlsGet(urls, region, UrlsGet(urls, "UK", ""))
        ELSE UrlsGet(urls, region, IF urls # <<>> THEN urls[1].url ELSE "")

BaseUrlCalls ==
    {[fn |-> "get_base_url", done |-> FALSE, retailer |-> r, region |-> g,
      result |-> ""] : r \in DOMAIN base_urls, g \in RegionInputs}

\* get_base_url() runs for a scraper of the retailer in the region.
H_get_base_url ==
    /\ call.fn = "get_base_url"
    /\ ~call.done
    /\ call' = [call EXCEPT !.done = TRUE,
                            !.result = get_base_url(call.retailer, call.region)]
    /\ UNCHANGED <<scraping_status, thread, starts, stops, resp, ad, cli>>

\* href.startswith(x)
startswith(s, x) == HasAt(s, 1, x)

t_http == <<"h", "t", "t", "p">>
t_prd_1 == <<"/", "p", "r", "d", "/", "1">>
t_asos_prd_1 == <<"h", "t", "t", "p", "s", ":", "/", "/", "w", "w", "w",
                  ".", "a", "s", "o", "s", ".", "c", "o", "m", "/", "p",
                  "r", "d", "/", "1">>
t_asos_host == <<"h", "t", "t", "p", "s", ":", "/", "/", "w", "w", "w",
                 ".", "a", "s", "o", "s", ".", "c", "o", "m">>
t_uniqlo_product_1 == <<"h", "t", "t", "p", "s", ":", "/", "/", "w", "w",
                        "w", ".", "u", "n", "i", "q", "l", "o", ".", "c",
                        "o", "m", "/", "u", "k", "/", "e", "n", "/", "p",
                        "r", "o", "d", "u", "c", "t", "/", "1">>
t_img_1 == <<"/", "i", "m", "g", "/", "1", ".", "j", "p", "g">>
t_cdn_img_1 == <<"/", "/", "i", "m", "a", "g", "e", "s", ".", "c", "d",
                 "n", ".", "c", "o", "m", "/", "1", ".", "j", "p", "g">>
t_https_img_1 == <<"h", "t", "t", "p", "s", ":", "/", "/", "i", "m", "a",
                   "g", "e", "s", ".", "c", "d", "n", ".", "c", "o", "m",
                   "/", "1", ".", "j", "p", "g">>

\* What the pages give for the url and the image of one product: the href
\* of its link on the listing page (or the url of its structured data),
\* the src of its listing image and the src of the product page's gallery
\* image; <<>> where the element or the attribute is missing.
Hrefs == {<<>>, t_prd_1, t_asos_prd_1}
ImageSrcs == {<<>>, t_img_1, t_cdn_img_1, t_https_img_1}

\* GenericRetailerScraper.get_product_details, the url and the image of
\* the record of a qualifying page: the link as discovered, and the src
\* extract_attribute finds or "".
generic_entry_urls(product_url, page_src) ==
    [made |-> TRUE, url |-> product_url, image_url |-> page_src]

\* ASOSScraper: extract_products_from_page takes url and image from the
\* structured data as they are, or from the product card with a relative
\* href prefixed by the host; verify_product_material makes no record of
\* an empty url and takes the gallery image when the listing gave none.
asos_entry_urls(from_json, href, listing_src, page_src) ==
    LET url == IF ~from_json /\ href # <<>> /\ ~startswith(href, t_http)
               THEN t_asos_host \o href
               ELSE href
        image_url == IF listing_src # <<>> THEN listing_src ELSE page_src
    IN  IF url = <<>>
        THEN [made |-> FALSE, url |-> <<>>, image_url |-> <<>>]
        ELSE [made |-> TRUE, url |-> url, image_url |-> image_url]

entry_urls(kind, from_json, href, listing_src, page_src) ==
    IF kind = "asos"
    THEN asos_entry_urls(from_json, href, listing_src, page_src)
    ELSE generic_entry_urls(href, page_src)

EntryUrlCalls ==
    {[fn |-> "entry_urls", done |-> FALSE, kind |-> "asos", from_json |-> j,
      href |-> h, listing_src |-> l, page_src |-> g,
      result |-> [made |-> FALSE, url |-> <<>>, image_url |-> <<>>]] :
        j \in BOOLEAN, h \in Hrefs, l \in ImageSrcs, g \in ImageSrcs}
    \cup
    {[fn |-> "entry_urls", done |-> FALSE, kind |-> "generic", from_json |-> FALSE,
      href |-> t_uniqlo_product_1, listing_src |-> <<>>, page_src |-> g,
      result |-> [made |-> FALSE, url |-> <<>>, image_url |-> <<>>]] :
        g \in ImageSrcs}

\* An adapter makes the record of a qualifying product page.
H_entry_urls ==
    /\ call.fn = "entry_urls"
    /\ ~call.done
    /\ call' = [call EXCEPT !.done = TRUE,
                   !.result = entry_urls(call.kind, call.from_json, call.href,
                                         call.listing_src, call.page_src)]
    /\ UNCHANGED <<scraping_status, thread, starts, stops, resp, ad, cli>>

Min(a, b) == IF a <= b THEN a ELSE b

\* ------------------- src/scrapers/generic_scraper.py: find_product_links

\* The [:100] of find_product_links and the 20 of its length check.
LINK_LIMIT == 100
MIN_LINK_LENGTH == 20

\* The texts that mark an href as no product link.
SKIP_WORDS ==
    <<<<"j", "a", "v", "a", "s", "c", "r", "i", "p", "t", ":">>,
      <<"m", "a", "i", "l", "t", "o", ":">>,
      <<"#">>,
      <<"c", "a", "r", "t">>,
      <<"w", "i", "s", "h", "l", "i", "s", "t">>,
      <<"a", "c", "c", "o", "u", "n", "t">>>>

t_uniqlo_base == <<"h", "t", "t", "p", "s", ":", "/", "/", "w", "w", "w",
                   ".", "u", "n", "i", "q", "l", "o", ".", "c", "o", "m",
                   "/", "u", "k", "/", "e", "n">>

\* The absolute URL find_product_links makes of an href: the href itself
\* when it starts with "http", otherwise the base URL followed by it, with
\* a "/" between them when the href has none.
absolute_url(base_url, href) ==
    IF startswith(href, t_http) THEN href
    ELSE IF startswith(href, <<"/">>) THEN base_url \o href
    ELSE base_url \o <<"/">> \o href

\* Whether find_product_links skips the href as no product link.
skipped(href) ==
    \E k \in 1 .. Len(SKIP_WORDS) : Contains(lower(href), SKIP_WORDS[k])

InSeq(x, seq) == \E k \in 1 .. Len(seq) : seq[k] = x

\* The loops over the selectors and their elements (lines 154-174): hrefs
\* is the href of every element in the order in which the loops meet it
\* (<<>> for an element without one), links the list built so far.
RECURSIVE collect_links(_, _, _)
collect_links(hrefs, base_url, links) ==
    IF hrefs = <<>> THEN links
    ELSE LET href == Head(hrefs)
             url  == absolute_url(base_url, href)
         IN  IF href = <<>> \/ skipped(href)
             THEN collect_links(Tail(hrefs), base_url, links)
             ELSE IF ~InSeq(url, links) /\ Len(url) > MIN_LINK_LENGTH
             THEN collect_links(Tail(hrefs), base_url, Append(links, url))
             ELSE collect_links(Tail(hrefs), base_url, links)

\* The same loops, ten elements at a time from the element at position
\* first on (a long page is not walked in one recursion).
RECURSIVE collect_by_tens(_, _, _, _)
collect_by_tens(hrefs, base_url, links, first) ==
    IF first > Len(hrefs) THEN links
    ELSE collect_by_tens(hrefs, base_url,
             collect_links(SubSeq(hrefs, first, Min(first + 9, Len(hrefs))),
                           base_url, links),
             first + 10)

\* list(set(links)): the elements of the list in the iteration order of a
\* set of strings, which depends on the hash seed of the process and not
\* on the order of insertion. The model draws it from the rotations of the
\* list.
set_order(links, rot) ==
    IF links = <<>> THEN <<>>
    ELSE LET r == rot % Len(links)
         IN  SubSeq(links, r + 1, Len(links)) \o SubSeq(links, 1, r)

\* GenericRetailerScraper.find_product_links
find_product_links(hrefs, base_url, rot) ==
    LET links == set_order(collect_by_tens(hrefs, base_url, <<>>, 1), rot)
    IN  SubSeq(links, 1, Min(Len(links), LINK_LIMIT))

DigitChars == <<"0", "1", "2", "3", "4", "5", "6", "7", "8", "9">>

\* str(n), for n below 1000, with leading zeros.
Digits3(n) ==
    <<DigitChars[(n \div 100) + 1], DigitChars[((n \div 10) % 10) + 1],
      DigitChars[(n % 10) + 1]>>

t_product_item == <<"/", "p", "r", "o", "d", "u", "c", "t", "/", "i", "t",
                    "e", "m", "-">>
t_product_alpha == <<"/", "p", "r", "o", "d", "u", "c", "t", "/", "a", "l",
                     "p", "h", "a", "-", "t", "e", "e">>
t_product_beta == <<"p", "r", "o", "d", "u", "c", "t", "/", "b", "e", "t",
                    "a", "-", "t", "e", "e">>
t_javascript_void == <<"J", "a", "v", "a", "S", "c", "r", "i", "p", "t",
                       ":", "v", "o", "i", "d", "(", "0", ")">>
t_mailto == <<"m", "a", "i", "l", "t", "o", ":", "s", "h", "o", "p", "@",
              "u", "n", "i", "q", "l", "o", ".", "c", "o", "m">>
t_fragment == <<"#", "t", "o", "p">>
t_cart == <<"/", "c", "a", "r", "t">>
t_wishlist == <<"/", "W", "i", "s", "h", "l", "i", "s", "t", "/", "1">>
t_account == <<"/", "a", "c", "c", "o", "u", "n", "t", "/", "l", "o", "g",
               "i", "n">>
t_abs_product == <<"h", "t", "t", "p", "s", ":", "/", "/", "w", "w", "w",
                   ".", "u", "n", "i", "q", "l", "o", ".", "c", "o", "m",
                   "/", "u", "k", "/", "e", "n", "/", "p", "r", "o", "d",
                   "u", "c", "t", "/", "g", "a", "m", "m", "a", "-", "t",
                   "e", "e">>
t_short == <<"h", "t", "t", "p", ":", "/", "/", "u", ".", "c", "o", "/",
             "p", "/", "1">>
t_http_sale == <<"h", "t", "t", "p", "-", "s", "a", "l", "e", "/", "p",
                 "r", "o", "d", "u", "c", "t", "/", "d", "e", "l", "t",
                 "a", "-", "t", "e", "e">>

\* The listing pages of the model, each as the hrefs the loops meet: two
\* product links; the same with every kind of href that is no product link,
\* an element without href, a link met twice, an absolute link and one too
\* short to be kept; a relative link whose path starts with "http"; and
\* one more distinct product link than the limit.
ListingPage(id) ==
    IF id = "two" THEN <<t_product_alpha, t_product_beta>>
    ELSE IF id = "mixed"
    THEN <<t_javascript_void, t_product_alpha, t_mailto, <<>>, t_fragment,
           t_cart, t_product_beta, t_wishlist, t_account, t_product_alpha,
           t_abs_product, t_short>>
    ELSE IF id = "httpsale" THEN <<t_product_alpha, t_http_sale>>
    ELSE [n \in 1 .. LINK_LIMIT + 1 |-> t_product_item \o Digits3(n)]

ListingPages == {"two", "mixed", "httpsale", "many"}

\* Rotations from which the order of a set is drawn.
MaxRotation == 2

\* Link discovery on a listing page, not yet run; results holds the list
\* each run returned.
DiscoveryCalls ==
    {[fn |-> "find_product_links", done |-> FALSE, page |-> id,
      results |-> <<>>] : id \in ListingPages}

\* find_product_links(page) runs, for the first or the second time, on the
\* unchanged page.
H_find_product_links ==
    /\ call.fn = "find_product_links"
    /\ ~call.done
    /\ \E rot \in 0 .. MaxRotation :
          call' = [call EXCEPT
              !.results = Append(@, find_product_links(ListingPage(call.page),
                                                       t_uniqlo_base, rot)),
              !.done = (Len(call.results) = 1)]
    /\ UNCHANGED <<scraping_status, thread, starts, stops, resp, ad, cli>>

\* The number num / 10^scale.
Number(num, scale) == [none |-> FALSE, num |-> num, scale |-> scale]

\* The ways a price is written in the texts of the model, each with the
\* number it stands for: as the parser reads it (reads) and with only the
\* last comma of the text taken for the decimal separator and every other
\* comma for a thousands separator (last_comma). The last one is a range
\* of two prices written with decimal commas.
PriceForms ==
    {[text |-> <<>>, reads |-> NoneFloat, last_comma |-> NoneFloat],
     [text |-> SubSeq(t_29_99, 2, 6), reads |-> Number(2999, 2),
      last_comma |-> Number(2999, 2)],
     [text |-> <<"1", "5", ".", "0", "0">>, reads |-> Number(15, 0),
      last_comma |-> Number(15, 0)],
     [text |-> <<"1", "9", ",", "9", "9">>, reads |-> Number(1999, 2),
      last_comma |-> Number(1999, 2)],
     [text |-> <<"2", "5">>, reads |-> Number(25, 0),
      last_comma |-> Number(25, 0)],
     [text |-> <<"0", ".", "0", "0">>, reads |-> Number(0, 0),
      last_comma |-> Number(0, 0)],
     [text |-> <<"1", ",", "2", "9", "9", ".", "0", "0">>,
      reads |-> Number(1299, 0), last_comma |-> Number(1299, 0)],
     [text |-> <<"1", ",", "2", "9", "9">>, reads |-> Number(1299, 0),
      last_comma |-> Number(1299, 0)],
     [text |-> <<"1", "2", ",", "5", "0", " ", "-", " ", "1", "5", ",", "9", "9">>,
      reads |-> Number(125, 1), last_comma |-> Number(1250, 0)]}

\* What stands before the number: nothing, a word, a currency sign, with
\* or without whitespace.
PricePrefixes ==
    {<<>>, <<"pound">>, <<"$">>, <<"euro", " ">>, <<"euro", "nbsp">>,
     t_From \o <<" ", "pound">>, <<" ", "\n", "$">>}

PriceCalls ==
    {[fn |-> "clean_price", done |-> FALSE, arg |-> pre \o f.text,
      result |-> NoneFloat, h_reads |-> f.reads, h_last_comma |-> f.last_comma] :
        pre \in PricePrefixes, f \in PriceForms}

\* clean_price(price_text) runs.
H_clean_price ==
    /\ call.fn = "clean_price"
    /\ ~call.done
    /\ call' = [call EXCEPT !.done = TRUE, !.result = clean_price(call.arg)]
    /\ UNCHANGED <<scraping_status, thread, starts, stops, resp, ad, cli>>

\* ------------------------------------------- material extraction

Least(S) == CHOOSE x \in S : \A y \in S : x <= y

\* src/scrapers/generic_scraper.py extract_material, selectors
selectors ==
    <<"[data-testid=\"composition\"]",
      "[data-testid=\"product-composition\"]",
      "[data-testid=\"material\"]",
      ".composition",
      ".material",
      ".fabric",
      ".fabric-care",
      "#composition",
      "#material",
      ".product-details",
      ".product-description",
      ".product-info",
      "[class*=\"composition\"]",
      "[class*=\"Composition\"]",
      "[class*=\"material\"]",
      "[class*=\"Material\"]",
      "[class*=\"fabric\"]",
      "[class*=\"Fabric\"]",
      "[id*=\"composition\"]",
      "[id*=\"material\"]",
      ".details-content",
      ".description-text">>

\* src/scrapers/generic_scraper.py extract_material, tab_selectors
tab_selectors ==
    <<"button:has-text(\"Details\")",
      "button:has-text(\"Composition\")",
      "button:has-text(\"Material\")",
      "button:has-text(\"Product Details\")",
      "a:has-text(\"Details\")",
      "[role=\"tab\"]:has-text(\"Details\")",
      ".tab:has-text(\"Details\")">>

\* src/scrapers/hm_scraper.py get_material_composition, selectors
hm_selectors ==
    <<"[data-testid=\"product-description-text\"]",
      ".product-description",
      ".product-detail-info",
      "#product-description",
      ".composition",
      "div:has-text(\"Composition\")",
      "div:has-text(\"Material\")">>

\* src/scrapers/asos_scraper.py get_material_composition, selectors
asos_selectors ==
    <<"[data-test-id=\"product-details-composition\"]",
      ".product-details-composition",
      "#productDescription",
      ".product-description",
      "div:has-text(\"Composition\")",
      "div:has-text(\"Material\")",
      "[class*=\"composition\"]",
      "[class*=\"material\"]">>

w_composition ==
    <<"c", "o", "m", "p", "o", "s", "i", "t", "i", "o", "n">>
w_material ==
    <<"m", "a", "t", "e", "r", "i", "a", "l">>
w_fabric ==
    <<"f", "a", "b", "r", "i", "c">>

t_Soft ==
    <<"S", "o", "f", "t", " ", "C", "O", "T", "T", "O", "N", " ", "t", "e",
      "e">>
t_Wool ==
    <<"W", "o", "o", "l">>

c_comp ==
    <<"<", "p", ">", "C", "o", "m", "p", "o", "s", "i", "t", "i", "o", "n",
      ":", " ", "1", "0", "0", "%", " ", "C", "o", "t", "t", "o", "n", "<",
      "/", "p", ">">>
c_both ==
    <<"<", "b", ">", "1", "0", "0", "%", " ", "c", "o", "t", "t", "o", "n",
      "<", "/", "b", ">", "<", "i", ">", "F", "a", "b", "r", "i", "c", ":",
      " ", "1", "0", "0", " ", "C", "o", "t", "t", "o", "n", " ", "j", "e",
      "r", "s", "e", "y", "<", "/", "i", ">">>
c_pure ==
    <<"<", "b", ">", "P", "u", "r", "e", " ", "\n", " ", "C", "o", "t",
      "t", "o", "n", "<", "/", "b", ">">>
c_plain ==
    <<"<", "i", ">", "c", "o", "t", "t", "o", "n", "<", "/", "i", ">">>
c_care ==
    <<"m", "a", "t", "e", "r", "i", "a", "l", ":", " ", "s", "o", "f", "t",
      " ", "c", "o", "t", "t", "o", "n", ".", " ", "w", "a", "s", "h", "<",
      "b", "r", ">">>
c_lines ==
    <<"c", "o", "m", "p", "o", "s", "i", "t", "i", "o", "n", ":", "\n",
      "c", "o", "t", "t", "o", "n", "\n", "w", "o", "o", "l">>

\* A product page, as Material Extraction reads it. dom holds, for a
\* selector that finds an element, the element's inner text; tabs the
\* controls of the page; click_raises the controls whose click raises;
\* dom_after and content_after what the page shows once a control was
\* clicked; crashed whether every operation on the page raises.
ExtractionDoms ==
    {{},
     {<<".composition", t_100_Cotton>>, <<".product-description", t_Soft>>},
     {<<".material", t_Wool>>, <<".product-details", <<"nbsp">>>>},
     {<<".description-text", t_Pure_Cotton>>},
     {<<".product-description", t_Blend>>}}

ExtractionContents == {<<>>, c_comp, c_both, c_pure, c_plain, c_care, c_lines}

ExtractionPages ==
    [dom : ExtractionDoms,
     tabs : {{}, {tab_selectors[1]}, {tab_selectors[1], tab_selectors[2]},
             {tab_selectors[4]}},
     click_raises : {{}, {tab_selectors[1]}},
     dom_after : {{}, {<<".product-details", t_Pure_Cotton>>},
                  {<<".description-text", t_Pure_Cotton>>}},
     content : ExtractionContents,
     content_after : {<<>>, c_comp},
     crashed : BOOLEAN]

\* page.query_selector(selector) on a page that has not crashed.
query_selector(page, selector, clicked) ==
    LET dom == IF clicked THEN page.dom_after ELSE page.dom
    IN  IF \E e \in dom : e[1] = selector
        THEN Elem((CHOOSE e \in dom : e[1] = selector)[2])
        ELSE NoElem

\* page.content()
page_content(page, clicked) == IF clicked THEN page.content_after ELSE page.content

\* `'cotton' in text.lower()`
has_cotton(text) == Contains(lower(text), w_cotton)

\* extract_text(page, [selector]): an operation that raises is caught
\* inside, and gives "".
extract_text_at(page, selector, clicked) ==
    IF page.crashed THEN <<>>
    ELSE extract_text(query_selector(page, selector, clicked))

\* The position after the longest run of characters of cls from i on.
RECURSIVE SkipRun(_, _, _)
SkipRun(s, i, cls) ==
    IF i <= Len(s) /\ s[i] \in cls THEN SkipRun(s, i + 1, cls) ELSE i

\* The position of the first character of cls from i on, or Len(s) + 1.
RECURSIVE SkipTo(_, _, _)
SkipTo(s, i, cls) ==
    IF i <= Len(s) /\ s[i] \notin cls THEN SkipTo(s, i + 1, cls) ELSE i

\* group(1) of kw[:\s]*([^<>]*100%?[^<>]*cotton[^<>]*) matched at i, or
\* <<>> when it does not match there: the run without < and > that
\* follows the keyword, its colons and its whitespace, when the run holds
\* "100" and, after it, "cotton".
AnchoredAt(s, i, kw) ==
    IF ~HasAt(s, i, kw) THEN <<>>
    ELSE LET j == SkipRun(s, i + Len(kw), {":"} \cup Whitespace)
             e == SkipTo(s, j, {"<", ">"})
         IN  IF \E a \in j .. e - 1 :
                   /\ a + 2 <= e - 1
                   /\ HasAt(s, a, w_100)
                   /\ \E b \in a + 3 .. e - 6 : HasAt(s, b, w_cotton)
             THEN SubSeq(s, j, e - 1)
             ELSE <<>>

\* The position after the match of pat[k..] at i (\s* takes every
\* whitespace character it meets).
RECURSIVE MatchEnd(_, _, _, _)
MatchEnd(pat, k, s, i) ==
    IF k > Len(pat) THEN i
    ELSE IF pat[k].t = "lit" THEN MatchEnd(pat, k + 1, s, i + Len(pat[k].s))
    ELSE MatchEnd(pat, k + 1, s, SkipRun(s, i, Whitespace))

\* group(0) of a pattern of literals and \s* matched at i, or <<>>.
BareAt(s, i, pat) ==
    IF MatchAt(pat, 1, s, i) THEN SubSeq(s, i, MatchEnd(pat, 1, s, i) - 1)
    ELSE <<>>

\* group of kw[:\s]*(.*?cotton.*?)(?:<|$) and its like matched at i, or
\* <<>>: from the keyword's colons and whitespace to the first of ends
\* (or the end of the text) after the first "cotton", when no line break
\* lies in between ("." matches no line break, "$" the end of the text or
\* the line break that ends it).
LazyAt(s, i, kw, ends) ==
    IF ~HasAt(s, i, kw) THEN <<>>
    ELSE LET j  == SkipRun(s, i + Len(kw), {":"} \cup Whitespace)
             cs == {c \in j .. Len(s) :
                       /\ HasAt(s, c, w_cotton)
                       /\ \A x \in j .. c - 1 : s[x] # "\n"}
         IN  IF cs = {} THEN <<>>
             ELSE LET c  == Least(cs)
                      es == {e \in c + 6 .. Len(s) + 1 :
                               /\ \/ e = Len(s) + 1
                                  \/ s[e] \in ends
                                  \/ e = Len(s) /\ s[e] = "\n"
                               /\ \A x \in c + 6 .. e - 1 : s[x] # "\n"}
                  IN  IF es = {} THEN <<>> ELSE SubSeq(s, j, Least(es) - 1)

\* re.search: the group of the leftmost match, or <<>> without a match
\* (a group of these patterns holds "cotton", and is never empty).
FirstMatch(s, At(_, _)) ==
    LET begins == {i \in 1 .. Len(s) : At(s, i) # <<>>}
    IN  IF begins = {} THEN <<>> ELSE At(s, Least(begins))

\* generic_scraper.py lines 341-350: the group of pattern k in content.
generic_group(k, s) ==
    IF k = 1 THEN LET At(x, i) == AnchoredAt(x, i, w_composition) IN FirstMatch(s, At)
    ELSE IF k = 2 THEN LET At(x, i) == AnchoredAt(x, i, w_material) IN FirstMatch(s, At)
    ELSE IF k = 3 THEN LET At(x, i) == AnchoredAt(x, i, w_fabric) IN FirstMatch(s, At)
    ELSE LET pat == << <<Lit(w_100pct), WS, Lit(w_cotton)>>,
                       <<Lit(w_100pct), WS, Lit(w_organic), WS, Lit(w_cotton)>>,
                       <<Lit(w_100pct), WS, Lit(w_bci), WS, Lit(w_cotton)>>,
                       <<Lit(w_pure), WS, Lit(w_cotton)>>,
                       <<Lit(w_all), WS, Lit(w_cotton)>> >>[k - 3]
             At(x, i) == BareAt(x, i, pat)
         IN  FirstMatch(s, At)

\* What an extraction comes to: the text it returns, and ops, the page
\* operations it performed, in their order.
Extracted(text, ops) == [text |-> text, ops |-> ops]

\* generic_scraper.py lines 304-307 and 325-328: the selectors sels in
\* their order, until one gives a text with "cotton".
probe(page, sels, clicked, ops) ==
    LET text(i) == extract_text_at(page, sels[i], clicked)
        hits    == {i \in 1 .. Len(sels) : text(i) # <<>> /\ has_cotton(text(i))}
        n       == IF hits = {} THEN Len(sels) ELSE Least(hits)
    IN  [found |-> hits # {},
         text |-> IF hits = {} THEN <<>> ELSE text(n),
         ops |-> ops \o [k \in 1 .. n |-> <<"query", sels[k]>>]]

\* seqs[1] \o seqs[2] \o ...
RECURSIVE Concat(_)
Concat(seqs) == IF seqs = <<>> THEN <<>> ELSE Head(seqs) \o Concat(Tail(seqs))

\* generic_scraper.py lines 309-334: the tab selectors in their order. The
\* first control that is found and clicked ends the loop, whether the ten
\* selectors tried after it give a text or not; a query or a click that
\* raises goes on to the next tab selector.
disclose(page, ops) ==
    LET found   == {j \in 1 .. Len(tab_selectors) :
                       ~page.crashed /\ tab_selectors[j] \in page.tabs}
        opened  == {j \in found : tab_selectors[j] \notin page.click_raises}
        n       == IF opened = {} THEN Len(tab_selectors) ELSE Least(opened)
        tried   == [j \in 1 .. n |->
                       IF j \in found
                       THEN <<<<"query", tab_selectors[j]>>, <<"click", tab_selectors[j]>>>>
                       ELSE <<<<"query", tab_selectors[j]>>>>]
        ops1    == ops \o Concat(tried)
        r       == probe(page, SubSeq(selectors, 1, 10), TRUE, ops1)
    IN  IF opened = {}
        THEN [found |-> FALSE, text |-> <<>>, ops |-> ops1, clicked |-> FALSE]
        ELSE [found |-> r.found, text |-> r.text, ops |-> r.ops, clicked |-> TRUE]

\* generic_scraper.py lines 337-357: the patterns, in their order, on the
\* lower-cased markup; page.content() that raises gives "".
pattern_search(page, clicked, ops) ==
    LET ops1    == Append(ops, <<"content">>)
        content == lower(page_content(page, clicked))
        hits    == {k \in 1 .. 8 : generic_group(k, content) # <<>>}
    IN  IF page.crashed \/ hits = {} THEN Extracted(<<>>, ops1)
        ELSE Extracted(clean_text(generic_group(Least(hits), content)), ops1)

\* An extraction that searches the markup before it tries a selector.
extract_material_pattern_first(page) ==
    LET t3 == pattern_search(page, FALSE, <<>>)
        t1 == probe(page, selectors, FALSE, t3.ops)
    IN  IF t3.text # <<>> THEN t3
        ELSE IF t1.found THEN Extracted(t1.text, t1.ops)
        ELSE LET t2 == disclose(page, t1.ops)
             IN  Extracted(t2.text, t2.ops)

\* src/scrapers/generic_scraper.py extract_material
extract_material(page) ==
    LET t1 == probe(page, selectors, FALSE, <<>>)
    IN  IF t1.found THEN Extracted(t1.text, t1.ops)
        ELSE LET t2 == disclose(page, t1.ops)
             IN  IF t2.found THEN Extracted(t2.text, t2.ops)
                 ELSE pattern_search(page, t2.clicked, t2.ops)

\* The selector loop of the H&M and ASOS adapters: the inner text, as it
\* is, of the first element that holds "cotton"; a raise is caught.
probe_inner_text(page, sels, ops) ==
    LET e(i) == query_selector(page, sels[i], FALSE)
        hits == {i \in 1 .. Len(sels) :
                    ~page.crashed /\ e(i).present /\ has_cotton(e(i).text)}
        n    == IF hits = {} THEN Len(sels) ELSE Least(hits)
    IN  [found |-> hits # {},
         text |-> IF hits = {} THEN <<>> ELSE e(n).text,
         ops |-> ops \o [k \in 1 .. n |-> <<"query", sels[k]>>]]

\* The control a selector list finds: the first of the list on the page.
FoundTab(page, tabs) ==
    IF \E k \in 1 .. Len(tabs) : tabs[k] \in page.tabs
    THEN tabs[Least({k \in 1 .. Len(tabs) : tabs[k] \in page.tabs})]
    ELSE NONE

\* The keyword where the composition is.
hm_pattern_keyword(content) ==
    IF Contains(content, w_composition) THEN w_composition
    ELSE IF Contains(content, w_material) THEN w_material
    ELSE <<>>

\* hm_scraper.py lines 222-224: group(2) of
\* (composition|material)[:\s]*(.*?cotton.*?)(?:\.|<|$).
hm_pattern_group(content) ==
    LET At(x, i) == IF LazyAt(x, i, w_composition, {".", "<"}) # <<>>
                    THEN LazyAt(x, i, w_composition, {".", "<"})
                    ELSE LazyAt(x, i, w_material, {".", "<"})
    IN  FirstMatch(content, At)

\* src/scrapers/hm_scraper.py get_material_composition: the selectors,
\* then the control, and the markup only when the control was clicked.
hm_get_material_composition(page) ==
    LET t1   == probe_inner_text(page, hm_selectors, <<>>)
        tab  == FoundTab(page, <<tab_selectors[1], tab_selectors[2]>>)
        ops1 == Append(t1.ops, <<"query", "button">>)
        ops2 == Append(ops1, <<"click", tab>>)
        ops3 == Append(ops2, <<"content">>)
    IN  IF t1.found THEN Extracted(t1.text, t1.ops)
        ELSE IF page.crashed \/ tab = NONE THEN Extracted(<<>>, ops1)
        ELSE IF tab \in page.click_raises THEN Extracted(<<>>, ops2)
        ELSE Extracted(hm_pattern_group(lower(page_content(page, TRUE))), ops3)

\* asos_scraper.py lines 276-286: the patterns in their order, group(0)
\* for the one that holds "100%" and group(1) for the others.
asos_pattern_search(content) ==
    LET At1(x, i) == LazyAt(x, i, w_composition, {"<"})
        At2(x, i) == LazyAt(x, i, w_material, {"<"})
        At3(x, i) == BareAt(x, i, <<Lit(w_100pct), WS, Lit(w_cotton)>>)
    IN  IF FirstMatch(content, At1) # <<>> THEN FirstMatch(content, At1)
        ELSE IF FirstMatch(content, At2) # <<>> THEN FirstMatch(content, At2)
        ELSE FirstMatch(content, At3)

\* src/scrapers/asos_scraper.py get_material_composition: the selectors,
\* the details control when there is one, then the markup.
asos_get_material_composition(page) ==
    LET t1      == probe_inner_text(page, asos_selectors, <<>>)
        tab     == FoundTab(page, <<tab_selectors[4]>>)
        ops1    == Append(t1.ops, <<"query", "button">>)
        clicked == ~page.crashed /\ tab # NONE /\ tab \notin page.click_raises
        ops2    == IF page.crashed \/ tab = NONE THEN ops1
                   ELSE Append(ops1, <<"click", tab>>)
        ops3    == Append(ops2, <<"content">>)
    IN  IF t1.found THEN Extracted(t1.text, t1.ops)
        ELSE IF page.crashed THEN Extracted(<<>>, ops3)
        ELSE Extracted(asos_pattern_search(lower(page_content(page, clicked))), ops3)

\* Material Extraction of the adapter kind.
material_of(kind, page) ==
    IF kind = "generic" THEN extract_material(page)
    ELSE IF kind = "hm" THEN hm_get_material_composition(page)
    ELSE asos_get_material_composition(page)

ExtractionCalls ==
    {[fn |-> "extract_material", done |-> FALSE, kind |-> kind, page |-> page,
      result |-> Extracted(<<>>, <<>>)] :
        kind \in {"generic", "hm", "asos"}, page \in ExtractionPages}

\* Material Extraction runs on the page, for an adapter of the kind.
H_extract_material ==
    /\ call.fn = "extract_material"
    /\ ~call.done
    /\ call' = [call EXCEPT !.done = TRUE,
                            !.result = material_of(call.kind, call.page)]
    /\ UNCHANGED <<scraping_status, thread, starts, stops, resp, ad, cli>>

\* A scrape_retailer coroutine that has not begun. scraper is the number of
\* the adapter instance it created (0: none yet), browser and page the
\* state of the instance's browser and page, exc whether an exception is on
\* its way out of scrape_all, result what scrape_retailer returns. The h_
\* fields are history: h_closes the calls of browser.close(), h_failed the
\* positions of the genders whose scrape_category raised, h_attempted the
\* positions of the genders scrape_category was called for.
NoTask ==
    [pc |-> "new", retailer |-> NONE, scraper |-> 0, browser |-> "none",
     page |-> "none", g |-> 1, products |-> <<>>, errors |-> <<>>,
     exc |-> FALSE, result |-> <<>>, h_closes |-> 0, h_failed |-> {},
     h_attempted |-> <<>>]

\* No scrape_region call.
NoCli ==
    [pc |-> "off", concurrent |-> FALSE, genders |-> <<>>, tasks |-> <<>>,
     all_products |-> <<>>, scrapers |-> 0, collected |-> 0, h_faults |-> FALSE]

\* ---------------------------- adapters: one scrape_category call

\* src/config.py REQUEST_SETTINGS["max_retries"]
max_retries == 3

Kinds == {"generic", "hm", "asos"}

\* The products of one listing that are verified: product_links[:30] in
\* the generic and the H&M adapter, page_products[:20] in the ASOS one.
VerifyLimit(kind) == IF kind = "asos" THEN 20 ELSE 30

\* The adapter before a call. url is the page safe_goto is asked for,
\* retries its parameter, attempts and sleeps the goto calls and the
\* back-off sleeps of the safe_goto call in progress, result what it
\* returned, errors0 the error list when it was called; n is the number of
\* links taken from the listing page, i the link being verified and data
\* what the listing page gave for it. h_visits is history: for every link
\* dealt with, whether its page was reached and what the page showed.
AdIdle ==
    [pc |-> "off", kind |-> "generic", gender |-> "men", n |-> 0, i |-> 0,
     url |-> <<"none", 0>>, data |-> NoData,
     retries |-> 0, attempts |-> 0, sleeps |-> <<>>, result |-> "pending",
     errors |-> <<>>, errors0 |-> <<>>, products |-> <<>>, h_visits |-> <<>>]

\* The call safe_goto(page, url) of an adapter.
CallGoto(a, url) ==
    [a EXCEPT !.pc = "goto", !.url = url, !.retries = 0, !.attempts = 0,
              !.sleeps = <<>>, !.result = "pending", !.errors0 = a.errors]

\* scrape_category(gender, page) begins: the listing URL is built and
\* safe_goto is called for it.
AdStart(kind, gender) ==
    CallGoto([AdIdle EXCEPT !.kind = kind, !.gender = gender],
             <<"listing", 0>>)

\* A safe_goto that retries once more than max_retries.
safe_goto_one_more(a, ok) ==
    IF ok
    THEN [a EXCEPT !.attempts = @ + 1, !.result = "true", !.pc = "returned"]
    ELSE IF a.retries <= max_retries
    THEN [a EXCEPT !.attempts = @ + 1,
                   !.sleeps = Append(@, 2 ^ a.retries),
                   !.retries = @ + 1]
    ELSE [a EXCEPT !.attempts = @ + 1,
                   !.errors = Append(@, <<"Failed to load", a.url>>),
                   !.result = "false", !.pc = "returned"]

\* BaseScraper.safe_goto, one level of its recursion: page.goto succeeds
\* (ok) and True is returned, or it raises and the except clause either
\* sleeps 2 ** retries and calls safe_goto with retries + 1, or records the
\* failure and returns False.
safe_goto(a, ok) ==
    IF ok
    THEN [a EXCEPT !.attempts = @ + 1, !.result = "true", !.pc = "returned"]
    ELSE IF a.retries < max_retries
    THEN [a EXCEPT !.attempts = @ + 1,
                   !.sleeps = Append(@, 2 ^ a.retries),
                   !.retries = @ + 1]
    ELSE [a EXCEPT !.attempts = @ + 1,
                   !.errors = Append(@, <<"Failed to load", a.url>>),
                   !.result = "false", !.pc = "returned"]

\* One page.goto of the safe_goto call in progress.
A_goto ==
    /\ ad.pc = "goto"
    /\ \E ok \in BOOLEAN : ad' = safe_goto(ad, ok)
    /\ UNCHANGED <<scraping_status, thread, starts, stops, resp, call, cli>>

\* scrape_category after safe_goto of the listing page: an empty list when
\* the page did not load or (H&M, ASOS) no product tile appears in time;
\* otherwise the links found, cut to the verification limit.
A_listing ==
    /\ ad.pc = "returned"
    /\ ad.i = 0
    /\ \E tiles \in BOOLEAN, n \in 0 .. MaxLinks :
          /\ (ad.result = "false" \/ ad.kind = "generic") => tiles
          /\ (ad.result = "false" \/ ~tiles) => n = 0
          /\ ad' = IF ad.result = "false" \/ ~tiles
                   THEN [ad EXCEPT !.pc = "done"]
                   ELSE [ad EXCEPT !.pc = "links", !.i = 1,
                                   !.n = Min(n, VerifyLimit(ad.kind))]
    /\ UNCHANGED <<scraping_status, thread, starts, stops, resp, call, cli>>

\* What the page of a link showed, for the adapter kind: whether its
\* composition passes the classifier, whether the name the adapter takes
\* is non-empty once normalised, and whether the price it takes is a number.
NameTaken(kind, data, pg) ==
    IF kind = "asos" /\ data.name # <<>> THEN data.name
    ELSE inner_text_or_empty(pg.h1)

PriceTaken(kind, data, pg) ==
    IF kind = "asos" /\ PriceTruthy(data.price) THEN data.price
    ELSE clean_price(inner_text_or_empty(pg.price))

Visit(url, reached, kind, data, pg) ==
    [url |-> url, reached |-> reached,
     gate |-> reached /\ is_100_percent_cotton(pg.material),
     name_ok |-> reached /\ clean_text(NameTaken(kind, data, pg)) # <<>>,
     price_ok |-> reached /\ ~PriceTaken(kind, data, pg).none]

NoPage == [h1 |-> NoElem, price |-> NoElem, material |-> <<>>, details |-> FALSE]

\* The loop over the links: the next link is taken and safe_goto called
\* for it (ASOS gives up on a product whose url is empty), or the list is
\* exhausted and scrape_category returns its products.
A_link ==
    /\ ad.pc = "links"
    /\ IF ad.i > ad.n
       THEN ad' = [ad EXCEPT !.pc = "done"]
       ELSE \E data \in DataFor(ad.kind) :
               ad' = IF data.has_url
                     THEN CallGoto([ad EXCEPT !.data = data], <<"product", ad.i>>)
                     ELSE [ad EXCEPT !.i = @ + 1,
                              !.h_visits = Append(@,
                                  Visit(<<"product", ad.i>>, FALSE, ad.kind, data, NoPage))]
    /\ UNCHANGED <<scraping_status, thread, starts, stops, resp, call, cli>>

\* The verification of one product after safe_goto returned: nothing when
\* the page did not load, otherwise what the adapter makes of the page.
A_verify ==
    /\ ad.pc = "returned"
    /\ ad.i >= 1
    /\ IF ad.result = "false"
       THEN ad' = [ad EXCEPT !.pc = "links", !.i = @ + 1,
                      !.h_visits = Append(@,
                          Visit(ad.url, FALSE, ad.kind, ad.data, NoPage))]
       ELSE \E pg \in PagesFor(ad.kind) :
               LET v == get_product_details(ad.kind, ad.data, pg, ad.url, ad.gender)
               IN  ad' = [ad EXCEPT !.pc = "links", !.i = @ + 1,
                             !.products = @ \o v.products,
                             !.errors = @ \o v.errors,
                             !.h_visits = Append(@,
                                 Visit(ad.url, TRUE, ad.kind, ad.data, pg))]
    /\ UNCHANGED <<scraping_status, thread, starts, stops, resp, call, cli>>

AdapterInit ==
    /\ scraping_status = InitStatus
    /\ thread = [t \in Threads |-> NoThread]
    /\ starts = 0
    /\ stops = 0
    /\ resp = "none"
    /\ ad \in {AdStart(kind, gender) : kind \in Kinds, gender \in {"men"}}
    /\ call = NoCall
    /\ cli = NoCli

AdapterNext ==
    \/ A_goto
    \/ A_listing
    \/ A_link
    \/ A_verify

AdapterSpec == AdapterInit /\ [][AdapterNext]_vars

\* ------------------------------------------ src/main.py: scrape_region

\* src/config.py REQUEST_SETTINGS["max_concurrent_requests"]
max_concurrent_requests == 5

\* src/config.py REGIONS["UK"]["retailers"]
UK_retailers ==
    <<"hm", "asos", "uniqlo", "next", "marksandspencer", "zara", "primark",
      "johnlewis", "debenhams">>

\* scrape_region(region, retailers, genders, concurrent) at line 102, with
\* available_retailers computed: one coroutine for each of them. h_faults
\* tells whether the browser, the pages and the disk of this run can fail.
CliStart(available_retailers, genders, concurrent, faults) ==
    [NoCli EXCEPT
        !.pc = "run", !.concurrent = concurrent, !.genders = genders,
        !.tasks = [i \in 1 .. Len(available_retailers) |->
                      [NoTask EXCEPT !.retailer = available_retailers[i]]],
        !.h_faults = faults]

\* The calls of the model: up to MaxTasks retailers of the UK region in a
\* run without failures, and two retailers (twice the same one, too) with
\* every failure.
CliRuns ==
    {CliStart(SubSeq(UK_retailers, 1, n), <<"men">>, c, FALSE) :
        n \in 1 .. MaxTasks, c \in BOOLEAN}
    \cup {CliStart(rl, gl, c, TRUE) :
            rl \in {<<"hm", "asos">>, <<"hm", "hm">>},
            gl \in {<<"men">>, <<"women", "kids">>}, c \in BOOLEAN}

\* line 102: the branch scrape_region takes.
Concurrent(c) == c.concurrent /\ Len(c.tasks) > 1

\* The outcomes of one step of the run.
Oks(c) == IF c.h_faults THEN BOOLEAN ELSE {TRUE}
CliOutcomes(c) == IF c.h_faults THEN {"ok", "raise", "unloadable"} ELSE {"ok"}
CliFinds(c) == IF c.h_faults THEN {0, 1} ELSE {1}

\* A create_scraper that keeps one adapter instance for each retailer key.
create_scraper_cached(c, retailer) ==
    IF \E j \in 1 .. Len(c.tasks) :
          c.tasks[j].retailer = retailer /\ c.tasks[j].scraper # 0
    THEN c.tasks[CHOOSE j \in 1 .. Len(c.tasks) :
                    c.tasks[j].retailer = retailer /\ c.tasks[j].scraper # 0].scraper
    ELSE c.scrapers + 1

\* create_scraper(retailer, region) returns a new adapter instance on
\* every call: the number of the instance.
create_scraper_instance(c, retailer) == c.scrapers + 1

\* An exception that leaves the try block without a finally clause.
Raise_no_finally(t) == [t EXCEPT !.exc = TRUE, !.pc = "returned"]

\* base_scraper.py lines 243-244: an exception inside the try block of
\* scrape_all runs the finally clause on its way out.
Raise(t) == [t EXCEPT !.exc = TRUE, !.pc = "close_browser"]

\* An except clause that gives up the gender loop.
gender_raised_break(t, gender) ==
    [t EXCEPT !.errors = Append(@, <<"Error scraping gender", gender>>),
              !.h_failed = @ \cup {t.g},
              !.pc = "page_close"]

\* base_scraper.py lines 236-239: the except clause of the gender loop
\* appends one entry to self.errors, and the loop goes on.
gender_raised(t, gender) ==
    [t EXCEPT !.errors = Append(@, <<"Error scraping gender", gender>>),
              !.h_failed = @ \cup {t.g},
              !.g = @ + 1]

\* main.py line 46: the coroutine begins, create_scraper. gather starts
\* the coroutines in the order of the list; the sequential loop calls the
\* next one when the result of the one before has been taken.
R_begin(i) ==
    LET t == cli.tasks[i]
    IN  /\ cli.pc = "run"
        /\ t.pc = "new"
        /\ \A j \in 1 .. i - 1 :
              IF Concurrent(cli) THEN cli.tasks[j].pc # "new"
              ELSE cli.collected >= j
        /\ cli' = [cli EXCEPT
                      !.scrapers = @ + 1,
                      !.tasks[i] = [t EXCEPT
                          !.pc = "start_browser",
                          !.scraper = create_scraper_instance(cli, t.retailer)]]
        /\ UNCHANGED <<scraping_status, thread, starts, stops, resp, ad, call>>

\* base_scraper.py line 227, start_browser: the browser is launched, or the
\* launch raises.
R_start_browser(i) ==
    LET t == cli.tasks[i]
    IN  /\ cli.pc = "run"
        /\ t.pc = "start_browser"
        /\ \E ok \in Oks(cli) :
              cli' = [cli EXCEPT !.tasks[i] =
                         IF ok THEN [t EXCEPT !.pc = "new_page", !.browser = "open"]
                         ELSE Raise(t)]
        /\ UNCHANGED <<scraping_status, thread, starts, stops, resp, ad, call>>

\* base_scraper.py line 228, new_page.
R_new_page(i) ==
    LET t == cli.tasks[i]
    IN  /\ cli.pc = "run"
        /\ t.pc = "new_page"
        /\ \E ok \in Oks(cli) :
              cli' = [cli EXCEPT !.tasks[i] =
                         IF ok THEN [t EXCEPT !.pc = "gender", !.page = "open"]
                         ELSE Raise(t)]
        /\ UNCHANGED <<scraping_status, thread, starts, stops, resp, ad, call>>

\* base_scraper.py lines 230-239: one iteration of the gender loop.
\* scrape_category returns k records, raises, or records through safe_goto
\* that the listing page cannot be loaded and returns an empty list.
R_gender(i) ==
    LET t      == cli.tasks[i]
        gender == cli.genders[t.g]
        tried  == [t EXCEPT !.h_attempted = Append(@, t.g)]
    IN  /\ cli.pc = "run"
        /\ t.pc = "gender"
        /\ t.g <= Len(cli.genders)
        /\ \E outcome \in CliOutcomes(cli) :
           \E k \in (IF outcome = "ok" THEN CliFinds(cli) ELSE {0}) :
              cli' = [cli EXCEPT !.tasks[i] =
                  IF outcome = "raise" THEN gender_raised(tried, gender)
                  ELSE [tried EXCEPT
                          !.g = @ + 1,
                          !.products =
                              @ \o [j \in 1 .. k |->
                                      create_product_entry_job(t.retailer, gender, t.g)],
                          !.errors =
                              IF outcome = "unloadable"
                              THEN Append(@, <<"Failed to load", t.retailer, gender>>)
                              ELSE @]]
        /\ UNCHANGED <<scraping_status, thread, starts, stops, resp, ad, call>>

\* base_scraper.py line 241, page.close() after the last gender.
R_page_close(i) ==
    LET t == cli.tasks[i]
    IN  /\ cli.pc = "run"
        /\ \/ t.pc = "gender" /\ t.g > Len(cli.genders)
           \/ t.pc = "page_close"
        /\ \E ok \in Oks(cli) :
              cli' = [cli EXCEPT !.tasks[i] =
                         IF ok THEN [t EXCEPT !.pc = "close_browser", !.page = "closed"]
                         ELSE Raise(t)]
        /\ UNCHANGED <<scraping_status, thread, starts, stops, resp, ad, call>>

\* base_scraper.py lines 243-250 and main.py lines 47-51: the finally
\* clause calls close_browser, which closes the browser the instance holds
\* (`if self.browser`); then scrape_all returns self.products, or its
\* exception reaches scrape_retailer, which returns an empty list.
R_close_browser(i) ==
    LET t == cli.tasks[i]
    IN  /\ cli.pc = "run"
        /\ t.pc = "close_browser"
        /\ \E ok \in Oks(cli) :
              LET launched == t.browser # "none"
                  raised   == t.exc \/ (launched /\ ~ok)
              IN  cli' = [cli EXCEPT !.tasks[i] =
                            [t EXCEPT
                               !.pc = "returned",
                               !.browser = IF launched /\ ok THEN "closed" ELSE @,
                               !.h_closes = IF launched THEN @ + 1 ELSE @,
                               !.exc = raised,
                               !.result = IF raised THEN <<>> ELSE t.products]]
        /\ UNCHANGED <<scraping_status, thread, starts, stops, resp, ad, call>>

\* main.py lines 113-125 and 129-136: the result of one retailer joins
\* all_products and is saved, in the order of the list; the concurrent
\* branch begins when gather has every result. save_products_json is
\* outside any try block.
R_collect(i) ==
    LET t == cli.tasks[i]
    IN  /\ cli.pc = "run"
        /\ t.pc = "returned"
        /\ cli.collected = i - 1
        /\ Concurrent(cli) => \A j \in 1 .. Len(cli.tasks) : cli.tasks[j].pc = "returned"
        /\ \E saved \in Oks(cli) :
              /\ t.result = <<>> => saved
              /\ cli' = [cli EXCEPT
                            !.all_products = @ \o t.result,
                            !.collected = i,
                            !.pc = IF ~saved THEN "raised"
                                   ELSE IF i = Len(cli.tasks) THEN "done"
                                   ELSE @]
        /\ UNCHANGED <<scraping_status, thread, starts, stops, resp, ad, call>>

CliInit ==
    /\ scraping_status = InitStatus
    /\ thread = [t \in Threads |-> NoThread]
    /\ starts = 0
    /\ stops = 0
    /\ resp = "none"
    /\ ad = AdIdle
    /\ call = NoCall
    /\ cli \in CliRuns

CliNext ==
    \E i \in 1 .. Len(cli.tasks) :
       \/ R_begin(i)
       \/ R_start_browser(i)
       \/ R_new_page(i)
       \/ R_gender(i)
       \/ R_page_close(i)
       \/ R_close_browser(i)
       \/ R_collect(i)

CliSpec == CliInit /\ [][CliNext]_vars

\* ------------------------------------------------- src/app.py: handlers

\* The thread start_scrape launches: run_scraping(region, retailers,
\* genders), about to execute the first statement of scrape_async.
NewThread(rl, gl) == [NoThread EXCEPT !.pc = "l48", !.retailers = rl, !.genders = gl]

\* The number of the next thread to launch.
NextThread == CHOOSE t \in Threads : thread[t].pc = "none" /\ \A u \in 1 .. t - 1 : thread[u].pc # "none"

\* A start request that ignores the running flag.
start_scrape_unguarded(rl, gl) ==
    /\ starts < MaxStarts
    /\ starts' = starts + 1
    /\ resp' = "started"
    /\ thread' = [thread EXCEPT ![NextThread] = NewThread(rl, gl)]
    /\ UNCHANGED <<scraping_status, stops, ad, call, cli>>

\* POST /api/scrape. The handler reads is_scraping once; when it is set it
\* answers 400 and does nothing else, otherwise it starts a background
\* thread. The flag itself is set by the thread, not by the handler.
start_scrape(rl, gl) ==
    /\ starts < MaxStarts
    /\ starts' = starts + 1
    /\ IF scraping_status.is_scraping
       THEN /\ resp' = "already"
            /\ UNCHANGED <<scraping_status, thread>>
       ELSE /\ resp' = "started"
            /\ thread' = [thread EXCEPT ![NextThread] = NewThread(rl, gl)]
            /\ UNCHANGED scraping_status
    /\ UNCHANGED <<stops, ad, call, cli>>

\* POST /api/stop: clears is_scraping and logs the request. h_stop records,
\* for every job launched and not yet finished, that a stop was requested
\* (the h_ fields of a thread are history the code does not keep: h_stop,
\* h_began_after_stop a retailer begun after such a request, h_broke the
\* loop left by the break of line 62, h_raised the retailers whose scraping
\* raised, h_returned the products scrape_all returned, h_adapter_errs the
\* (retailer, gender) pairs for which the adapter recorded a failure).
stop_scrape ==
    /\ stops < MaxStops
    /\ stops' = stops + 1
    /\ scraping_status' =
           log_message([scraping_status EXCEPT !.is_scraping = FALSE],
                       <<"Stop requested by user">>)
    /\ thread' = [t \in Threads |->
                     IF Running(t) THEN [thread[t] EXCEPT !.h_stop = TRUE]
                     ELSE thread[t]]
    /\ UNCHANGED <<starts, resp, ad, call, cli>>

\* ------------------------------------------ src/app.py: scrape_async

\* line 48
T_l48(t) ==
    /\ thread[t].pc = "l48"
    /\ scraping_status' = [scraping_status EXCEPT !.is_scraping = TRUE]
    /\ thread' = [thread EXCEPT ![t].pc = "l49"]
    /\ UNCHANGED <<starts, stops, resp, ad, call, cli>>

\* line 49
T_l49(t) ==
    /\ thread[t].pc = "l49"
    /\ scraping_status' = [scraping_status EXCEPT !.log = <<>>]
    /\ thread' = [thread EXCEPT ![t].pc = "l50"]
    /\ UNCHANGED <<starts, stops, resp, ad, call, cli>>

\* lines 50-51
T_l50(t) ==
    /\ thread[t].pc = "l50"
    /\ scraping_status' = [scraping_status EXCEPT !.errors = <<>>]
    /\ thread' = [thread EXCEPT ![t].pc = "l53", ![t].all_products = <<>>]
    /\ UNCHANGED <<starts, stops, resp, ad, call, cli>>

\* lines 53-57
T_l53(t) ==
    /\ thread[t].pc = "l53"
    /\ scraping_status' =
           log_message(log_message(log_message(scraping_status,
               <<"Starting scrape">>), <<"Retailers">>), <<"Genders">>)
    /\ thread' = [thread EXCEPT ![t].pc = "head", ![t].idx = 1]
    /\ UNCHANGED <<starts, stops, resp, ad, call, cli>>

\* lines 59-67, one retailer boundary: the loop ends when the list is
\* exhausted, breaks when is_scraping is clear, and otherwise begins the
\* next retailer.
T_head(t) ==
    LET th == thread[t]
    IN  /\ th.pc = "head"
        /\ IF th.idx > Len(th.retailers)
           THEN /\ thread' = [thread EXCEPT ![t].pc = "l87"]
                /\ UNCHANGED scraping_status
           ELSE IF ~scraping_status.is_scraping
           THEN /\ scraping_status' =
                       log_message(scraping_status, <<"Scraping stopped by user">>)
                /\ thread' = [thread EXCEPT ![t].pc = "l87", ![t].h_broke = TRUE]
           ELSE /\ scraping_status' =
                       log_message(
                           [scraping_status EXCEPT
                               !.current_retailer = th.retailers[th.idx],
                               !.progress = progress_of(th.idx - 1, Len(th.retailers))],
                           <<"Scraping", th.retailers[th.idx]>>)
                /\ thread' = [thread EXCEPT ![t].pc = "create",
                                            ![t].h_began_after_stop = @ \/ th.h_stop]
        /\ UNCHANGED <<starts, stops, resp, ad, call, cli>>

\* An except handler that leaves the retailer loop.
HandleException_break(t) ==
    LET th == thread[t]
        r  == th.retailers[th.idx]
    IN  /\ scraping_status' =
               log_message([scraping_status EXCEPT
                               !.errors = Append(@, <<"Error scraping", r>>)],
                           <<"Error scraping", r>>)
        /\ thread' = [thread EXCEPT ![t].pc = "l87",
                                    ![t].h_raised = @ \cup {th.idx}]

\* lines 81-84: the except clause of the retailer's try block, then the
\* next iteration of the loop.
HandleException(t) ==
    LET th == thread[t]
        r  == th.retailers[th.idx]
    IN  /\ scraping_status' =
               log_message([scraping_status EXCEPT
                               !.errors = Append(@, <<"Error scraping", r>>)],
                           <<"Error scraping", r>>)
        /\ thread' = [thread EXCEPT ![t].pc = "head",
                                    ![t].idx = @ + 1,
                                    ![t].h_raised = @ \cup {th.idx}]

\* line 70: create_scraper builds the adapter (fresh products and errors
\* lists) or raises.
T_create(t) ==
    LET th == thread[t]
    IN  /\ th.pc = "create"
        /\ IF create_scraper(th.retailers[th.idx]) = "raise"
           THEN HandleException(t)
           ELSE /\ thread' = [thread EXCEPT ![t].pc = "browser",
                                            ![t].sc_products = <<>>,
                                            ![t].sc_errors = <<>>]
                /\ UNCHANGED scraping_status
        /\ UNCHANGED <<starts, stops, resp, ad, call, cli>>

\* ------------------------- src/scrapers/base_scraper.py: scrape_all

\* lines 226-228: start_browser and new_page. When one raises, the finally
\* clause closes the browser and the exception reaches scrape_async.
T_browser(t, oks) ==
    /\ thread[t].pc = "browser"
    /\ \E ok \in oks :
          IF ok
          THEN /\ thread' = [thread EXCEPT ![t].pc = "gender", ![t].g = 1]
               /\ UNCHANGED scraping_status
          ELSE HandleException(t)
    /\ UNCHANGED <<starts, stops, resp, ad, call, cli>>

\* What one scrape_category(gender, page) call can come to, for the
\* adapter kind and the products it finds: it returns k records made with
\* gender=gender ("ok"), it raises ("raise"), or its listing page cannot be
\* loaded, which safe_goto records before an empty list is returned
\* ("unloadable"). H&M has a listing path for the three genders only. The
\* k products of a listing are consecutive products of the retailer's
\* catalogue, from a position in urls on: the listings of two genders may
\* show the same product.
CategoryFinds(kind, gender, finds) ==
    IF kind = "hm" /\ gender \notin HM_gender_paths THEN {0} ELSE finds

\* lines 230-239: one iteration of the gender loop. An exception of
\* scrape_category is caught here and appended to the adapter's own error
\* list (self.errors); the listing failure is appended there by safe_goto.
T_gender(t, outcomes, finds, urls) ==
    LET th     == thread[t]
        r      == th.retailers[th.idx]
        gender == th.genders[th.g]
    IN  /\ th.pc = "gender"
        /\ th.g <= Len(th.genders)
        /\ \E outcome \in outcomes :
           \E k \in (IF outcome = "ok"
                     THEN CategoryFinds(create_scraper(r), gender, finds)
                     ELSE {0}) :
           \E u \in (IF k = 0 THEN {1} ELSE urls) :
              thread' = [thread EXCEPT
                    ![t].g = @ + 1,
                    ![t].sc_products =
                        @ \o [j \in 1 .. k |->
                                 create_product_entry_job(r, gender, u + j - 1)],
                    ![t].sc_errors =
                        IF outcome = "raise"
                        THEN Append(@, <<"Error scraping gender", gender>>)
                        ELSE IF outcome = "unloadable"
                        THEN Append(@, <<"Failed to load", r, gender>>)
                        ELSE @,
                    ![t].h_adapter_errs =
                        IF outcome = "ok" THEN @ ELSE @ \cup {<<r, gender>>}]
        /\ UNCHANGED <<scraping_status, starts, stops, resp, ad, call, cli>>

\* lines 241-250: page.close(), close_browser() and the return of
\* self.products; when closing raises, the products are not returned.
T_close(t, oks) ==
    LET th == thread[t]
    IN  /\ th.pc = "gender"
        /\ th.g > Len(th.genders)
        /\ \E ok \in oks :
              IF ok
              THEN /\ thread' = [thread EXCEPT
                         ![t].pc = "l72",
                         ![t].h_returned = @ \o th.sc_products]
                   /\ UNCHANGED scraping_status
              ELSE HandleException(t)
        /\ UNCHANGED <<starts, stops, resp, ad, call, cli>>

\* ------------------------------ src/app.py: scrape_async, continued

\* lines 72-79: the retailer's products join the aggregate; saving the
\* retailer's file can raise, which the same except clause records.
T_l72(t, saves) ==
    LET th == thread[t]
        r  == th.retailers[th.idx]
        st == log_message(scraping_status, <<"Found", Len(th.sc_products), r>>)
    IN  /\ th.pc = "l72"
        /\ \E saved \in saves :
              /\ th.sc_products = <<>> => saved
              /\ scraping_status' =
                     IF saved THEN st
                     ELSE log_message([st EXCEPT
                              !.errors = Append(@, <<"Error scraping", r>>)],
                              <<"Error scraping", r>>)
        /\ thread' = [thread EXCEPT ![t].pc = "head",
                                    ![t].idx = @ + 1,
                                    ![t].all_products = @ \o th.sc_products]
        /\ UNCHANGED <<starts, stops, resp, ad, call, cli>>

\* lines 87-90: the combined file. save_products_json is outside any try
\* block: when it raises, scrape_async ends there and the thread dies.
T_l87(t, saves) ==
    LET th == thread[t]
    IN  /\ th.pc = "l87"
        /\ \E saved \in saves :
              /\ th.all_products = <<>> => saved
              /\ IF saved
                 THEN /\ thread' = [thread EXCEPT ![t].pc = "l92"]
                      /\ scraping_status' =
                             IF th.all_products = <<>> THEN scraping_status
                             ELSE log_message(scraping_status,
                                      <<"Saved", Len(th.all_products)>>)
                 ELSE /\ thread' = [thread EXCEPT ![t].pc = "crashed"]
                      /\ UNCHANGED scraping_status
        /\ UNCHANGED <<starts, stops, resp, ad, call, cli>>

\* line 92
T_l92(t) ==
    /\ thread[t].pc = "l92"
    /\ scraping_status' = [scraping_status EXCEPT !.is_scraping = FALSE]
    /\ thread' = [thread EXCEPT ![t].pc = "l93"]
    /\ UNCHANGED <<starts, stops, resp, ad, call, cli>>

\* line 93
T_l93(t) ==
    /\ thread[t].pc = "l93"
    /\ scraping_status' = [scraping_status EXCEPT !.progress = 100]
    /\ thread' = [thread EXCEPT ![t].pc = "l94"]
    /\ UNCHANGED <<starts, stops, resp, ad, call, cli>>

\* line 94
T_l94(t) ==
    /\ thread[t].pc = "l94"
    /\ scraping_status' =
           [scraping_status EXCEPT !.total_products = Len(thread[t].all_products)]
    /\ thread' = [thread EXCEPT ![t].pc = "l95"]
    /\ UNCHANGED <<starts, stops, resp, ad, call, cli>>

\* lines 95-99
T_l95(t) ==
    /\ thread[t].pc = "l95"
    /\ scraping_status' =
           log_message([scraping_status EXCEPT !.current_retailer = NONE],
                       <<"Scraping complete!">>)
    /\ thread' = [thread EXCEPT ![t].pc = "done"]
    /\ UNCHANGED <<starts, stops, resp, ad, call, cli>>

\* ------------------------------------------------------ specification


Init ==
    /\ scraping_status = InitStatus
    /\ thread = [t \in Threads |-> NoThread]
    /\ starts = 0
    /\ stops = 0
    /\ resp = "none"
    /\ ad = AdIdle
    /\ call = NoCall
    /\ cli = NoCli

\* The orchestrator under concurrent requests: up to MaxStarts start
\* requests and MaxStops stop requests interleaved with every step of the
\* threads they launch. Each job scrapes two retailers for one gender, and
\* every browser, adapter and file operation succeeds.
Next ==
    \/ \E rl \in {<<"hm", "asos">>}, gl \in {<<"men">>} : start_scrape(rl, gl)
    \/ stop_scrape
    \/ \E t \in Threads : T_l48(t)
    \/ \E t \in Threads : T_l49(t)
    \/ \E t \in Threads : T_l50(t)
    \/ \E t \in Threads : T_l53(t)
    \/ \E t \in Threads : T_head(t)
    \/ \E t \in Threads : T_create(t)
    \/ \E t \in Threads : T_browser(t, {TRUE})
    \/ \E t \in Threads : T_gender(t, {"ok"}, {MaxFound}, {1})
    \/ \E t \in Threads : T_close(t, {TRUE})
    \/ \E t \in Threads : T_l72(t, {TRUE})
    \/ \E t \in Threads : T_l87(t, {TRUE})
    \/ \E t \in Threads : T_l92(t)
    \/ \E t \in Threads : T_l93(t)
    \/ \E t \in Threads : T_l94(t)
    \/ \E t \in Threads : T_l95(t)

Spec == Init /\ [][Next]_vars

\* One job from start to end, with stop requests at any point: every
\* retailers and genders list of the inputs, and every outcome of the
\* browser, of each scrape_category call and of each file save.
JobNext ==
    \/ starts = 0 /\ \E rl \in RetailerInputs, gl \in GenderInputs : start_scrape(rl, gl)
    \/ stop_scrape
    \/ T_l48(1)
    \/ T_l49(1)
    \/ T_l50(1)
    \/ T_l53(1)
    \/ T_head(1)
    \/ T_create(1)
    \/ T_browser(1, BOOLEAN)
    \/ T_gender(1, {"ok", "raise", "unloadable"}, 0 .. MaxFound, 1 .. MaxUrls)
    \/ T_close(1, BOOLEAN)
    \/ T_l72(1, BOOLEAN)
    \/ T_l87(1, BOOLEAN)
    \/ T_l92(1)
    \/ T_l93(1)
    \/ T_l94(1)
    \/ T_l95(1)

JobSpec == Init /\ [][JobNext]_vars

\* ------------------------------------------------------------ claims


\* The helper functions of src/utils/helpers.py, each called once on an
\* argument drawn from the inputs above.
HelperInit ==
    /\ scraping_status = InitStatus
    /\ thread = [t \in Threads |-> NoThread]
    /\ starts = 0
    /\ stops = 0
    /\ resp = "none"
    /\ ad = AdIdle
    /\ call \in CottonCalls \cup GenderCalls \cup CategoryCalls
                \cup BaseUrlCalls \cup EntryUrlCalls \cup DiscoveryCalls
                \cup PriceCalls \cup ExtractionCalls
    /\ cli = NoCli

HelperNext ==
    \/ H_is_100_percent_cotton
    \/ H_normalize_gender
    \/ H_categorize_product
    \/ H_get_base_url
    \/ H_entry_urls
    \/ H_find_product_links
    \/ H_clean_price
    \/ H_extract_material

HelperSpec == HelperInit /\ [][HelperNext]_vars

GENDERS == {"men", "women", "kids"}

InRetailer(t) == thread[t].pc \in {"create", "browser", "gender", "l72"}

LoopOver(t) == thread[t].pc \in {"l87", "l92", "l93", "l94", "l95", "done"}

Entries(seq) == {seq[i] : i \in 1 .. Len(seq)}

\* C1: a start request handled while is_scraping is set answers with the
\* already-running error, launches no thread and leaves every field of
\* scraping_status as it was.
C1_RejectedStartChangesNothing ==
    [][(starts' = starts + 1 /\ scraping_status.is_scraping)
          => (/\ resp' = "already"
              /\ scraping_status' = scraping_status
              /\ thread' = thread)]_vars

\* A start request has been refused while a job was running.
C1_Witness ==
    /\ resp = "already"
    /\ scraping_status.is_scraping
    /\ \E t \in Threads : Running(t)

\* C2: at no time are two accepted jobs both between the first and the last
\* step of scrape_async.
C2_AtMostOneJob == Cardinality({t \in Threads : Running(t)}) <= 1

\* C3: a job for which a stop was requested while it scrapes a retailer is
\* still reported as running until that retailer is finished, and its
\* aggregate holds only products that scrape_all returned.
C3_RunningUntilRetailerDone ==
    \A t \in Threads :
        /\ (thread[t].h_stop /\ InRetailer(t)) => scraping_status.is_scraping
        /\ Len(thread[t].all_products) <= Len(thread[t].h_returned)

\* C4: a job for which a stop has been requested begins no further retailer.
C4_NoRetailerBegunAfterStop ==
    \A t \in Threads : ~thread[t].h_began_after_stop

\* C7: a retailer whose scraping raises costs the job one error entry and
\* nothing else: the except clause appends the entry and goes to the next
\* retailer with the aggregate untouched; a loop that was not stopped has
\* gone through every retailer; and the final aggregate is exactly the
\* products returned by the retailers that did not fail.
C7_FailureStep ==
    \A t \in Threads :
        thread'[t].h_raised # thread[t].h_raised
        => /\ scraping_status'.errors =
                  Append(scraping_status.errors,
                         <<"Error scraping", thread[t].retailers[thread[t].idx]>>)
           /\ thread'[t].pc = "head"
           /\ thread'[t].idx = thread[t].idx + 1
           /\ thread'[t].all_products = thread[t].all_products

C7_JobEnd ==
    \A t \in Threads :
        LoopOver(t)
        => /\ thread[t].all_products = thread[t].h_returned
           /\ ~thread[t].h_broke => thread[t].idx = Len(thread[t].retailers) + 1
           /\ \A i \in thread[t].h_raised :
                 <<"Error scraping", thread[t].retailers[i]>>
                     \in Entries(scraping_status.errors)

C7_RetailerFailureIsNotFatal == [](C7_JobEnd) /\ [][C7_FailureStep]_vars

\* A job has ended after one retailer raised and another returned products.
C7_Witness ==
    \E t \in Threads :
        /\ thread[t].pc = "done"
        /\ thread[t].h_raised # {}
        /\ thread[t].all_products # <<>>
        /\ scraping_status.errors # <<>>

\* C8: when a job is over, every (retailer, gender) pair for which the
\* adapter failed has an entry in the error list of the job status.
C8_AdapterFailuresReachJobStatus ==
    \A t \in Threads :
        thread[t].pc = "done"
        => \A f \in thread[t].h_adapter_errs :
              \E e \in Entries(scraping_status.errors) : e[2] = f[1]

\* C10: every product of a job's aggregate has one of the three genders.
C10_GenderIsCanonical ==
    \A t \in Threads :
        \A p \in Entries(thread[t].all_products) : p.gender \in GENDERS

\* The records of the adapter's result that come from a link.
RecordsOf(url) == {k \in 1 .. Len(ad.products) : ad.products[k].url = url}

\* C5: every record of an adapter's result has a composition that passes
\* the classifier, a non-empty stored name and a price; and a page that
\* fails the gate or shows no name or no price yields no record.
C5_RecordsAreComplete ==
    /\ \A k \in 1 .. Len(ad.products) :
          /\ is_100_percent_cotton(ad.products[k].material)
          /\ ad.products[k].name # <<>>
          /\ ~ad.products[k].price.none
    /\ \A j \in 1 .. Len(ad.h_visits) :
          ~(ad.h_visits[j].gate /\ ad.h_visits[j].name_ok /\ ad.h_visits[j].price_ok)
          => RecordsOf(ad.h_visits[j].url) = {}

\* C6: when the generic adapter has loaded the listing page and every
\* product page, its result holds one record for each link whose page shows
\* a qualifying composition, a name and a price, in the order of the links,
\* and no other record.
Qualifies(v) == v.gate /\ v.name_ok /\ v.price_ok

RECURSIVE QualifyingUrls(_)
QualifyingUrls(visits) ==
    IF visits = <<>> THEN <<>>
    ELSE (IF Qualifies(Head(visits)) THEN <<Head(visits).url>> ELSE <<>>)
         \o QualifyingUrls(Tail(visits))

C6_OneRecordPerQualifyingLink ==
    (/\ ad.pc = "done"
     /\ ad.kind = "generic"
     /\ \A j \in 1 .. Len(ad.h_visits) : ad.h_visits[j].reached)
    => [k \in 1 .. Len(ad.products) |-> ad.products[k].url]
           = QualifyingUrls(ad.h_visits)

\* C9: a safe_goto call makes at most max_retries + 1 attempts; before
\* retry k + 1 it has slept 2^k seconds; it returns true at the first
\* attempt that succeeds and records nothing; it returns false only after
\* max_retries + 1 failed attempts, with exactly one entry for the URL
\* added to the adapter's error list; and a link whose page did not load
\* has no record.
C9_SafeGoto ==
    ad.pc # "off"
    => /\ ad.attempts <= max_retries + 1
       /\ Len(ad.sleeps) = ad.retries
       /\ \A k \in 1 .. Len(ad.sleeps) :
             ad.sleeps[k] = IF k = 1 THEN 1 ELSE 2 * ad.sleeps[k - 1]
       /\ ad.pc = "goto" => ad.attempts = ad.retries /\ ad.errors = ad.errors0
       /\ (ad.pc = "returned" /\ ad.result = "true")
             => ad.attempts = ad.retries + 1 /\ ad.errors = ad.errors0
       /\ (ad.pc = "returned" /\ ad.result = "false")
             => /\ ad.attempts = max_retries + 1
                /\ ad.errors = Append(ad.errors0, <<"Failed to load", ad.url>>)
       /\ \A j \in 1 .. Len(ad.h_visits) :
             ~ad.h_visits[j].reached => RecordsOf(ad.h_visits[j].url) = {}

\* A product page has failed to load at every attempt, and the adapter has
\* gone on to later links.
C9_Witness ==
    /\ ad.pc = "returned"
    /\ ad.result = "false"
    /\ ad.i >= 2
    /\ ad.attempts = max_retries + 1
    /\ \E j \in 1 .. Len(ad.h_visits) : ~ad.h_visits[j].reached

\* C17: the classifier returns true for every text that contains a
\* qualifying phrase, in any letter case and with any whitespace around and
\* between the words of the phrase, and false for the empty text.
C17_PhrasesQualify ==
    (call.fn = "is_100_percent_cotton" /\ call.done)
    => /\ call.h_kind = "phrase" => call.result
       /\ call.h_kind = "empty" => ~call.result

\* The classifier has accepted the BCI phrase written in upper case with a
\* no-break space between its words.
C17_Witness ==
    /\ call.fn = "is_100_percent_cotton"
    /\ call.done
    /\ call.result
    /\ call.arg = upper(Phrase(<<w_100pct, w_bci, w_cotton>>,
                               <<<<"nbsp">>, <<"nbsp">>>>))

\* C18: the classifier returns false for every blended composition.
C18_BlendsAreRejected ==
    (call.fn = "is_100_percent_cotton" /\ call.done /\ call.h_kind = "blend")
    => ~call.result

\* C19: the normaliser maps every label of a gender's synonym list, in any
\* letter case, to that gender, a label with no synonym to None, and never
\* returns anything but men, women, kids or None.
C19_SynonymsNormalise ==
    (call.fn = "normalize_gender" /\ call.done)
    => /\ call.result = call.h_listed
       /\ call.result \in {"men", "women", "kids", NONE}

\* The taxonomy, in the order the categories are tried.
TaxonomyOrder ==
    <<"t-shirts", "shirts", "jeans", "trousers", "dresses", "skirts", "shorts",
      "sweaters", "hoodies", "jackets", "underwear", "socks", "activewear">>

\* C20: the category classifier returns the first category of the taxonomy
\* order one of whose keywords occurs in the lower-cased name and URL, and
\* "other" when none occurs; its result is a taxonomy member or "other".
C20_FirstCategoryWins ==
    (call.fn = "categorize_product" /\ call.done)
    => LET text == lower(call.name \o <<" ">> \o call.url)
           Hit(k) == \E w \in 1 .. Len(category_keywords[k].keywords) :
                        Contains(text, category_keywords[k].keywords[w])
       IN  /\ Len(category_keywords) = Len(TaxonomyOrder)
           /\ call.result \in {TaxonomyOrder[k] : k \in 1 .. 13} \cup {"other"}
           /\ call.result = "other" <=> \A k \in 1 .. 13 : ~Hit(k)
           /\ \A k \in 1 .. 13 :
                 /\ category_keywords[k].category = TaxonomyOrder[k]
                 /\ call.result = TaxonomyOrder[k]
                       => Hit(k) /\ \A j \in 1 .. k - 1 : ~Hit(j)
           /\ call.url = <<>> =>
                 /\ call.name = t_Mens_Cotton_TShirt => call.result = "t-shirts"
                 /\ call.name = t_Slim_Fit_Jeans => call.result = "jeans"
                 /\ call.name = t_Cotton_Hoodie => call.result = "hoodies"
                 /\ call.name = t_Widget_XYZ => call.result = "other"

\* A name with keywords of two categories (shirts and jeans) has been
\* classified as the earlier one.
C20_Witness ==
    /\ call.fn = "categorize_product"
    /\ call.done
    /\ call.name = t_Denim_Shirt
    /\ call.url = <<>>
    /\ call.result = "shirts"

\* An absolute URI: a text that starts with a scheme and "//".
IsAbsolute(u) ==
    \/ startswith(u, t_http \o <<":", "/", "/">>)
    \/ startswith(u, t_http \o <<"s", ":", "/", "/">>)

\* C11: every record an adapter makes has a url and an image_url that are
\* absolute URIs, neither relative nor empty.
C11_RecordUrlsAreAbsolute ==
    (call.fn = "entry_urls" /\ call.done /\ call.result.made)
    => IsAbsolute(call.result.url) /\ IsAbsolute(call.result.image_url)

\* C13: base-URL resolution for a retailer in a region it has no base URL
\* for gives no URL.
C13_NoUrlForUnsupportedRegion ==
    (call.fn = "get_base_url" /\ call.done
        /\ ~HasBaseUrl(call.retailer, call.region))
    => call.result = ""

\* C12: the final aggregate of a job never holds two records with the
\* same id.
C12_AggregateHasNoDuplicateId ==
    \A t \in Threads :
       \A i, j \in 1 .. Len(thread[t].all_products) :
          thread[t].all_products[i].id = thread[t].all_products[j].id => i = j

\* The links of a listing page in the order in which they are first met.
DiscoveryOrder(id) == collect_by_tens(ListingPage(id), t_uniqlo_base, <<>>, 1)

Position(x, seq) == CHOOSE k \in 1 .. Len(seq) : seq[k] = x

\* C14: the product pages of a gender are visited in the order in which
\* their links were first discovered: the list link discovery hands to the
\* verification loop is in discovery order.
C14_VisitedInDiscoveryOrder ==
    call.fn = "find_product_links"
    => \A r \in 1 .. Len(call.results) :
          \A i, j \in 1 .. Len(call.results[r]) :
             i < j => Position(call.results[r][i], DiscoveryOrder(call.page))
                        < Position(call.results[r][j], DiscoveryOrder(call.page))

\* An href that is non-navigational or points to a cart, wishlist or
\* account path.
NoProductHref(href) ==
    LET h == lower(href)
    IN  \/ \E k \in 1 .. 3 : startswith(h, SKIP_WORDS[k])
        \/ \E k \in 4 .. 6 : Contains(h, <<"/">> \o SKIP_WORDS[k])

\* C15: link discovery returns at most 100 URLs, pairwise distinct, each
\* absolute, each the resolution of an href of the page that is neither
\* non-navigational nor a cart, wishlist or account path.
C15_LinksAreBoundedDistinctAbsolute ==
    call.fn = "find_product_links"
    => \A r \in 1 .. Len(call.results) :
          LET links == call.results[r]
              hrefs == ListingPage(call.page)
          IN  /\ Len(links) <= 100
              /\ \A i, j \in 1 .. Len(links) : links[i] = links[j] => i = j
              /\ \A i \in 1 .. Len(links) :
                    /\ IsAbsolute(links[i])
                    /\ \E k \in 1 .. Len(hrefs) :
                          /\ hrefs[k] # <<>>
                          /\ ~NoProductHref(hrefs[k])
                          /\ absolute_url(t_uniqlo_base, hrefs[k]) = links[i]

\* C16: two runs of link discovery on the same unchanged page return the
\* same set of URLs.
C16_DiscoveryIsIdempotent ==
    (call.fn = "find_product_links" /\ Len(call.results) = 2)
    => {call.results[1][i] : i \in 1 .. Len(call.results[1])}
         = {call.results[2][i] : i \in 1 .. Len(call.results[2])}

\* Absence exactly for a text without a digit, and never a negative number.
PriceAbsenceAndSign ==
    /\ call.result.none <=> \A i \in 1 .. Len(call.arg) : call.arg[i] \notin Digit
    /\ call.result.num >= 0

\* C21 as stated: the parser reads a trailing comma with exactly two digits
\* as the decimal separator and every other comma as a thousands separator.
C21_LastCommaIsDecimal ==
    (call.fn = "clean_price" /\ call.done)
    => PriceAbsenceAndSign /\ call.result = call.h_last_comma

\* C21, amended: when the text, without currency signs and whitespace, ends
\* in a comma and exactly two digits, the parser reads every comma of it as
\* a decimal point, and otherwise drops every comma; it returns the first
\* run of digits with its optional decimal part, absence exactly when the
\* text has no digit, and never a negative number.
C21_PriceParser ==
    (call.fn = "clean_price" /\ call.done)
    => PriceAbsenceAndSign /\ call.result = call.h_reads

\* The parser has read "euro 19,99" as 19.99.
C21_Witness ==
    /\ call.fn = "clean_price"
    /\ call.done
    /\ call.arg = t_19_99
    /\ call.result = Number(1999, 2)

\* C22: while a job is running and has not yet begun its first retailer,
\* and no other job is running, job status shows no error, progress 0 and
\* total_products 0, never the values the previous job left.
C22_StatusFreshAtStart ==
    \A t \in Threads :
       (/\ thread[t].pc \in {"l53", "head"}
        /\ thread[t].idx = 1
        /\ \A u \in Threads \ {t} : ~Running(u))
       => /\ scraping_status.errors = <<>>
          /\ scraping_status.progress = 0
          /\ scraping_status.total_products = 0

\* C23: a job whose thread has ended has returned to idle: is_scraping is
\* false, current_retailer is cleared, progress is 100 and total_products
\* is the number of products of the aggregate.
C23_EndedJobIsIdle ==
    \A t \in Threads :
       thread[t].pc \in {"done", "crashed"}
       => /\ ~scraping_status.is_scraping
          /\ scraping_status.current_retailer = NONE
          /\ scraping_status.progress = 100
          /\ scraping_status.total_products = Len(thread[t].all_products)

\* The coroutines of the scrape_region call.
Tasks == 1 .. Len(cli.tasks)

\* A coroutine inside scrape_all: its retailer is being scraped.
Scraping(i) == cli.tasks[i].pc \notin {"new", "returned"}

\* C24: in the concurrent branch the number of retailers being scraped at
\* the same time never exceeds max_concurrent_requests.
C24_ParallelismIsBounded ==
    Concurrent(cli)
    => Cardinality({i \in Tasks : Scraping(i)}) <= max_concurrent_requests

\* C25: no adapter instance (and so no browser and no page, which an
\* instance owns) belongs to two coroutines, and at most one coroutine has
\* a browser or page operation of an instance in flight.
C25_InstancesAreNotShared ==
    /\ \A i, j \in Tasks :
          (i # j /\ cli.tasks[i].scraper # 0) => cli.tasks[i].scraper # cli.tasks[j].scraper
    /\ \A sc \in 1 .. cli.scrapers :
          Cardinality({i \in Tasks : Scraping(i) /\ cli.tasks[i].scraper = sc}) <= 1

\* Two coroutines of the concurrent branch are scraping a gender of the
\* same retailer, each with its own instance.
C25_Witness ==
    /\ Concurrent(cli)
    /\ \E i, j \in Tasks :
          /\ i # j
          /\ cli.tasks[i].retailer = cli.tasks[j].retailer
          /\ cli.tasks[i].pc = "gender"
          /\ cli.tasks[j].pc = "gender"

\* The entries of the adapter's error list that record a gender whose
\* scrape_category raised.
RECURSIVE GenderErrors(_)
GenderErrors(errors) ==
    IF errors = <<>> THEN <<>>
    ELSE IF Head(errors)[1] = "Error scraping gender"
    THEN <<Head(errors)>> \o GenderErrors(Tail(errors))
    ELSE GenderErrors(Tail(errors))

\* What scrape_all has made of the failed genders of coroutine i: one
\* entry each, no product of theirs, every gender of the list attempted
\* once the loop is over, and the products gathered returned.
FailedGendersSkipped(i) ==
    LET t == cli.tasks[i]
    IN  /\ Len(GenderErrors(t.errors)) = Cardinality(t.h_failed)
        /\ \A k \in 1 .. Len(t.products) : t.products[k].url \notin t.h_failed
        /\ t.page = "closed" => t.h_attempted = [k \in 1 .. Len(cli.genders) |-> k]
        /\ (t.pc = "returned" /\ ~t.exc) => t.result = t.products

\* C28: the step in which scrape_category raises for a gender appends one
\* entry to the adapter's error list, adds no product and keeps those
\* gathered before, and goes on to the next gender; the products gathered
\* are returned.
C28_GenderFailureIsSkipped ==
    [][\A i \in Tasks :
          /\ cli'.tasks[i].h_failed # cli.tasks[i].h_failed
             => /\ cli'.tasks[i].errors
                     = Append(cli.tasks[i].errors,
                              <<"Error scraping gender", cli.genders[cli.tasks[i].g]>>)
                /\ cli'.tasks[i].products = cli.tasks[i].products
                /\ cli'.tasks[i].pc = "gender"
                /\ cli'.tasks[i].g = cli.tasks[i].g + 1
          /\ FailedGendersSkipped(i)']_vars

\* scrape_all has returned the product of the first gender after the
\* second one failed.
C28_Witness ==
    \E i \in Tasks :
       /\ cli.tasks[i].pc = "returned"
       /\ cli.tasks[i].h_failed = {2}
       /\ Len(cli.tasks[i].errors) = 1
       /\ Len(cli.tasks[i].result) = 1
       /\ cli.tasks[i].result[1].gender = cli.genders[1]

\* C29: when scrape_all is over and its browser was launched,
\* close_browser has called close() on that browser, however the call
\* ended.
C29_BrowserIsClosed ==
    \A i \in Tasks :
       (cli.tasks[i].pc = "returned" /\ cli.tasks[i].browser # "none")
       => cli.tasks[i].h_closes = 1

\* scrape_all has ended with an exception raised before the page was
\* closed, and the browser is closed.
C29_Witness ==
    \E i \in Tasks :
       /\ cli.tasks[i].pc = "returned"
       /\ cli.tasks[i].exc
       /\ cli.tasks[i].page # "closed"
       /\ cli.tasks[i].browser = "closed"
       /\ cli.tasks[i].h_closes = 1

\* C27: while a job is running, a request handler (a step that counts a
\* start or a stop request) writes no field of the job status.
C27_HandlersWriteNoStatus ==
    [][((starts' # starts \/ stops' # stops) /\ \E t \in Threads : Running(t))
       => scraping_status' = scraping_status]_vars

\* The positions of the selectors of the generic adapter that give a text
\* with "cotton" on the page, before or after a control was clicked.
Yields(page, sels, clicked) ==
    {i \in 1 .. Len(sels) : has_cotton(extract_text_at(page, sels[i], clicked))}

\* The controls of the generic adapter that the page has and that open.
Opens(page) ==
    {j \in 1 .. Len(tab_selectors) :
        /\ ~page.crashed
        /\ tab_selectors[j] \in page.tabs
        /\ tab_selectors[j] \notin page.click_raises}

\* What the second tier gives: the selectors tried after the click.
Tier2Yields(page) ==
    IF Opens(page) = {} THEN {} ELSE Yields(page, SubSeq(selectors, 1, 10), TRUE)

\* The patterns of the third tier that match the markup the page shows
\* once the second tier is over.
Tier3Content(page) == lower(page_content(page, Opens(page) # {}))

Tier3Yields(page) ==
    IF page.crashed THEN {}
    ELSE {k \in 1 .. 8 : generic_group(k, Tier3Content(page)) # <<>>}

\* The positions of the operations of a kind in a list of operations.
OpsOf(ops, kind) == {k \in 1 .. Len(ops) : ops[k][1] = kind}

\* C26: the generic adapter clicks a control only when no selector of the
\* first tier gives a text with "cotton", reads the markup only when the
\* second tier gives none either and as its last operation, after the
\* selectors of the first tier in their order, and returns the text of the
\* earliest tier, and in it of the earliest selector or pattern, that
\* gives one.
C26_TiersRunInOrder ==
    (call.fn = "extract_material" /\ call.done /\ call.kind = "generic")
    => LET page == call.page
           ops  == call.result.ops
           y1   == Yields(page, selectors, FALSE)
           y2   == Tier2Yields(page)
           y3   == Tier3Yields(page)
       IN  /\ OpsOf(ops, "click") # {} => y1 = {}
           /\ OpsOf(ops, "content") # {} => (y1 = {} /\ y2 = {})
           /\ \A k \in OpsOf(ops, "click") : k > Len(selectors)
           /\ \A k \in OpsOf(ops, "content") : k = Len(ops)
           /\ \A k \in 1 .. Min(Len(ops), Len(selectors)) :
                 ops[k] = <<"query", selectors[k]>>
           /\ call.result.text =
                 IF y1 # {} THEN extract_text_at(page, selectors[Least(y1)], FALSE)
                 ELSE IF y2 # {} THEN extract_text_at(page, selectors[Least(y2)], TRUE)
                 ELSE IF y3 # {}
                 THEN clean_text(generic_group(Least(y3), Tier3Content(page)))
                 ELSE <<>>

\* The generic adapter has clicked a control whose click raised, then a
\* second one, found nothing with the selectors it tries after the click,
\* and returned the composition it found in the markup.
C26_Witness ==
    /\ call.fn = "extract_material"
    /\ call.done
    /\ call.kind = "generic"
    /\ Cardinality(OpsOf(call.result.ops, "click")) = 2
    /\ OpsOf(call.result.ops, "content") # {}
    /\ call.result.text = lower(t_100_Cotton)

\* C30: the text Material Extraction returns, for every adapter and every
\* page, a crashed one too, is empty or holds "cotton" in some letter
\* case; the extraction returns, it does not raise.
C30_ReturnsCottonOrNothing ==
    (call.fn = "extract_material" /\ call.done)
    => \/ call.result.text = <<>>
       \/ has_cotton(call.result.text)

\* The H&M adapter has read the composition from the markup of a page
\* none of its selectors matched.
C30_Witness ==
    /\ call.fn = "extract_material"
    /\ call.done
    /\ call.kind = "hm"
    /\ OpsOf(call.result.ops, "content") # {}
    /\ has_cotton(call.result.text)

====
